---- MODULE Spec2Model ----
(***************************************************************************)
(* Layer-based ID card template renderer (app/template_renderer.py).       *)
(*                                                                         *)
(* The model follows TemplateRenderer.render step by step: canvas          *)
(* allocation, side lookup, background paste, z-order sort, the dispatch   *)
(* loop with its per-layer try/except, and the return.  Bitmaps are        *)
(* functions from pixel coordinates to colour names; Python values that    *)
(* may be missing or null are tagged records (PyStr, PyInt, PyNone,        *)
(* Absent); strings are sequences of one-character strings.                *)
(*                                                                         *)
(* What the imaging library does is abstracted as follows: a glyph run     *)
(* inks one pixel per non-blank character on the line's row, a character   *)
(* of a bold face being two pixels wide; resampling is nearest-neighbour;  *)
(* a colour name outside ValidColours makes the drawing call raise before  *)
(* it paints; a font is the file it was loaded from and its size.          *)
(*                                                                         *)
(* Besides one render call (Spec) the module has get_font called from      *)
(* several threads (SpecFont), two render calls side by side (SpecShared), *)
(* the resolution of an asset reference (SpecPaths) and the layout of one  *)
(* text layer (SpecText).                                                  *)
(***************************************************************************)
EXTENDS Integers, Sequences, FiniteSets, TLC

\* ------------------------------------------------------------------------
\* Bounds of the model
\* ------------------------------------------------------------------------
MaxLayers == 2
CanvasW == 3
CanvasH == 2

\* ------------------------------------------------------------------------
\* Python values
\* ------------------------------------------------------------------------
Absent == [t |-> "absent", s |-> <<>>, n |-> 0]
PyNone == [t |-> "none", s |-> <<>>, n |-> 0]
PyStr(s) == [t |-> "str", s |-> s, n |-> 0]
PyInt(n) == [t |-> "int", s |-> <<>>, n |-> n]
PyBool(b) == [t |-> "bool", s |-> <<>>, n |-> IF b THEN 1 ELSE 0]

\* dict.get(key, default) once the key's entry is known
Get(v, default) == IF v.t = "absent" THEN default ELSE v

\* Python truth value
Truthy(v) ==
    CASE v.t = "str" -> v.s # <<>>
      [] v.t = "int" -> v.n # 0
      [] v.t = "bool" -> v.n # 0
      [] OTHER -> FALSE

Digit(d) == <<"0", "1", "2", "3", "4", "5", "6", "7", "8", "9">>[d + 1]

RECURSIVE Digits(_)
Digits(n) == IF n < 10 THEN <<Digit(n)>> ELSE Digits(n \div 10) \o <<Digit(n % 10)>>

\* str(v)
Str(v) ==
    CASE v.t = "str" -> v.s
      [] v.t = "none" -> <<"N", "o", "n", "e">>
      [] v.t = "bool" -> IF v.n # 0 THEN <<"T", "r", "u", "e">>
                                     ELSE <<"F", "a", "l", "s", "e">>
      [] v.t = "int" -> IF v.n < 0 THEN <<"-">> \o Digits(0 - v.n) ELSE Digits(v.n)
      [] OTHER -> <<>>

\* Names used as dictionary keys and field references
S_static == <<"s", "t", "a", "t", "i", "c">>
S_photo == <<"p", "h", "o", "t", "o">>
S_full_name == <<"f", "u", "l", "l", "_", "n", "a", "m", "e">>
S_id_number == <<"i", "d", "_", "n", "u", "m", "b", "e", "r">>
S_nickname == <<"n", "i", "c", "k", "n", "a", "m", "e">>

\* data.get(key, default)
DataGet(record, key, default) ==
    IF key.t = "str" /\ key.s \in DOMAIN record THEN record[key.s] ELSE default

\* ------------------------------------------------------------------------
\* Bitmaps
\* ------------------------------------------------------------------------
Pixels(w, h) == (0 .. (w - 1)) \X (0 .. (h - 1))

Transparent == "transparent"
ValidColours == {"white", "black", "red", "blue", "green", "grey"}

\* Image.new(mode, (w, h), colour)
NewImage(w, h, colour) == [w |-> w, h |-> h, px |-> [p \in Pixels(w, h) |-> colour]]

EmptyCard == [w |-> 0, h |-> 0, px |-> [p \in {} |-> Transparent]]

\* Image.resize((w, h)), nearest neighbour
Resize(img, w, h) ==
    [w |-> w, h |-> h,
     px |-> [p \in Pixels(w, h) |->
                img.px[<<(p[1] * img.w) \div w, (p[2] * img.h) \div h>>]]]

\* card.paste(img, (x, y)): every pixel of img replaces the card's pixel
Paste(card, img, x, y) ==
    [card EXCEPT !.px =
        [p \in DOMAIN card.px |->
            IF <<p[1] - x, p[2] - y>> \in DOMAIN img.px
            THEN img.px[<<p[1] - x, p[2] - y>>]
            ELSE card.px[p]]]

\* card.paste(img, (x, y), mask=img): transparent pixels of img leave the card
PasteMasked(card, img, x, y) ==
    [card EXCEPT !.px =
        [p \in DOMAIN card.px |->
            IF /\ <<p[1] - x, p[2] - y>> \in DOMAIN img.px
               /\ img.px[<<p[1] - x, p[2] - y>>] # Transparent
            THEN img.px[<<p[1] - x, p[2] - y>>]
            ELSE card.px[p]]]

\* ImageDraw: the pixels of the card inside region take the colour
Fill(card, region, colour) ==
    [card EXCEPT !.px =
        [p \in DOMAIN card.px |-> IF p \in region THEN colour ELSE card.px[p]]]

\* the rectangle [x0, y0, x1, y1] of ImageDraw, both corners included
Box(x0, y0, x1, y1) == (x0 .. x1) \X (y0 .. y1)

\* ------------------------------------------------------------------------
\* Local files.  A path is the sequence of its '/'-separated segments; a
\* leading empty segment is a leading slash.
\* ------------------------------------------------------------------------
TemplateFolder == <<"data", "templates">>

GreyImage == [w |-> 2, h |-> 1, px |-> [p \in Pixels(2, 1) |-> "grey"]]
LogoImage == [w |-> 1, h |-> 2, px |-> [p \in Pixels(1, 2) |-> "green"]]
PhotoImage == [w |-> 2, h |-> 2, px |-> [p \in Pixels(2, 2) |-> "photo"]]

\* the files on disk: readable bitmaps and one file that is not an image
FileSystem ==
    (<<"data", "templates", "bg.png">> :> [ok |-> TRUE, img |-> GreyImage])
    @@ (<<"data", "templates", "logo.png">> :> [ok |-> TRUE, img |-> LogoImage])
    @@ (<<"data", "templates", "corrupt.png">> :> [ok |-> FALSE, img |-> EmptyCard])
    @@ (<<"data", "templates", "teacher", "bg.png">> :> [ok |-> TRUE, img |-> GreyImage])
    @@ (<<"data", "uploads", "bg.png">> :> [ok |-> TRUE, img |-> LogoImage])

\* Path.exists()
PathExists(path) == path \in DOMAIN FileSystem

ApiPrefix == <<"", "api", "templates", "backgrounds">>

Last(seq) == seq[Len(seq)]

\* ResolveBackground with the directories of a leading-slash path kept
ResolveBackground_KeepDirs(segs) ==
    IF Len(segs) > Len(ApiPrefix) /\ SubSeq(segs, 1, Len(ApiPrefix)) = ApiPrefix
    THEN <<"data", "templates">> \o SubSeq(segs, Len(ApiPrefix) + 1, Len(segs))
    ELSE IF segs[1] = ""
         THEN <<"data", "templates">> \o Tail(segs)
         ELSE TemplateFolder \o segs

\* the background reference to a file path
ResolveBackground(segs) ==
    IF Len(segs) > Len(ApiPrefix) /\ SubSeq(segs, 1, Len(ApiPrefix)) = ApiPrefix
    THEN <<"data", "templates">> \o SubSeq(segs, Len(ApiPrefix) + 1, Len(segs))
    ELSE IF segs[1] = ""
         THEN <<"data", "templates", Last(segs)>>
         ELSE TemplateFolder \o segs

\* LoadBackground with the file's bitmap taken as the card, unresized
LoadBackground_NativeSize(card, bg_image) ==
    LET bg_path == ResolveBackground(bg_image.s) IN
    IF PathExists(bg_path) /\ FileSystem[bg_path].ok
    THEN FileSystem[bg_path].img
    ELSE card

\* the background step: a readable file is resized to the canvas and pasted
\* at the origin; a missing or unreadable file leaves the flat fill
LoadBackground(card, bg_image) ==
    LET bg_path == ResolveBackground(bg_image.s) IN
    IF PathExists(bg_path) /\ FileSystem[bg_path].ok
    THEN Paste(card, Resize(FileSystem[bg_path].img, card.w, card.h), 0, 0)
    ELSE card

\* BackgroundRaises with the file opened without the exists() test
BackgroundRaises_OnMissing(bg_image) ==
    /\ Truthy(bg_image)
    /\ (bg_image.t # "str" \/ ~PathExists(ResolveBackground(bg_image.s)))

\* bg_image.startswith needs a string
BackgroundRaises(bg_image) == Truthy(bg_image) /\ bg_image.t # "str"

\* the position of the last interior "uploads" segment, 0 when there is none
UploadsAt(segs) ==
    LET hits == {i \in 2 .. (Len(segs) - 1) : segs[i] = "uploads"} IN
    IF hits = {} THEN 0 ELSE CHOOSE i \in hits : \A j \in hits : j <= i

\* ResolveSrc with a relative src used as it is, without base_path
ResolveSrc_NoBase(segs) ==
    IF /\ \E i \in 1 .. Len(segs) : segs[i] \in {"http:", "https:"}
       /\ \E i \in 1 .. Len(segs) : segs[i] = "uploads"
    THEN IF UploadsAt(segs) # 0
         THEN <<"data", "uploads">> \o SubSeq(segs, UploadsAt(segs) + 1, Len(segs))
         ELSE segs
    ELSE segs

\* an image layer's src to a file path
ResolveSrc(segs) ==
    IF /\ \E i \in 1 .. Len(segs) : segs[i] \in {"http:", "https:"}
       /\ \E i \in 1 .. Len(segs) : segs[i] = "uploads"
    THEN IF UploadsAt(segs) # 0
         THEN <<"data", "uploads">> \o SubSeq(segs, UploadsAt(segs) + 1, Len(segs))
         ELSE segs
    ELSE IF segs[1] # "" THEN TemplateFolder \o segs ELSE segs

\* ------------------------------------------------------------------------
\* Letter case
\* ------------------------------------------------------------------------
LowerCase == <<"a", "b", "c", "d", "e", "f", "g", "h", "i", "j", "k", "l", "m",
               "n", "o", "p", "q", "r", "s", "t", "u", "v", "w", "x", "y", "z">>
UpperCase == <<"A", "B", "C", "D", "E", "F", "G", "H", "I", "J", "K", "L", "M",
               "N", "O", "P", "Q", "R", "S", "T", "U", "V", "W", "X", "Y", "Z">>

\* str.upper() and str.lower()
Upper(str) ==
    [i \in 1 .. Len(str) |->
        IF \E k \in 1 .. 26 : LowerCase[k] = str[i]
        THEN UpperCase[CHOOSE k \in 1 .. 26 : LowerCase[k] = str[i]]
        ELSE str[i]]
Lower(str) ==
    [i \in 1 .. Len(str) |->
        IF \E k \in 1 .. 26 : UpperCase[k] = str[i]
        THEN LowerCase[CHOOSE k \in 1 .. 26 : UpperCase[k] = str[i]]
        ELSE str[i]]

\* ------------------------------------------------------------------------
\* FontManager.  A font file is named by <<directory, file name>>; a font is
\* the file it was loaded from and its size.  Only a file that is on disk and
\* loadable, asked for at a positive size, loads.
\* ------------------------------------------------------------------------
FONT_PATHS == <<"C:/Windows/Fonts", "C:/WINDOWS/FONTS", "./fonts", "../fonts">>

FONT_MAP ==
    (<<"a", "r", "i", "a", "l">> :> "arial.ttf")
    @@ (<<"a", "r", "i", "a", "l", " ", "b", "o", "l", "d">> :> "arialbd.ttf")
    @@ (<<"t", "i", "m", "e", "s", " ", "n", "e", "w", " ", "r", "o", "m", "a", "n">> :> "times.ttf")
    @@ (<<"t", "i", "m", "e", "s", " ", "n", "e", "w", " ", "r", "o", "m", "a", "n", " ", "b", "o", "l", "d">> :> "timesbd.ttf")
    @@ (<<"c", "a", "l", "i", "b", "r", "i">> :> "calibri.ttf")
    @@ (<<"c", "a", "l", "i", "b", "r", "i", " ", "b", "o", "l", "d">> :> "calibrib.ttf")
    @@ (<<"v", "e", "r", "d", "a", "n", "a">> :> "verdana.ttf")
    @@ (<<"v", "e", "r", "d", "a", "n", "a", " ", "b", "o", "l", "d">> :> "verdanab.ttf")
    @@ (<<"t", "a", "h", "o", "m", "a">> :> "tahoma.ttf")
    @@ (<<"t", "a", "h", "o", "m", "a", " ", "b", "o", "l", "d">> :> "tahomabd.ttf")
    @@ (<<"g", "e", "o", "r", "g", "i", "a">> :> "georgia.ttf")
    @@ (<<"g", "e", "o", "r", "g", "i", "a", " ", "b", "o", "l", "d">> :> "georgiab.ttf")
    @@ (<<"r", "o", "b", "o", "t", "o">> :> "Roboto-Regular.ttf")
    @@ (<<"r", "o", "b", "o", "t", "o", " ", "b", "o", "l", "d">> :> "Roboto-Bold.ttf")

S_Arial == <<"A", "r", "i", "a", "l">>
S_bold_suffix == <<" ", "b", "o", "l", "d">>

\* where ImageFont.truetype looks a bare file name up
PlatformFonts == "platform"

\* ImageFont.load_default()
DefaultFont == [face |-> <<"builtin", "default">>, size |-> 0]

\* ImageFont.truetype(path, size) returns a font rather than raising
TruetypeLoads(files, path, size) ==
    size > 0 /\ path \in DOMAIN files /\ files[path] = "ok"

\* weight in ('bold', '600', '700', '800', '900')
is_bold(weight) == weight \in {"bold", "600", "700", "800", "900"}

\* FONT_MAP.get(font_key, FONT_MAP.get(family_lower)), "" for None
FontFile(family, weight) ==
    LET family_lower == Lower(family)
        font_key == IF is_bold(weight) THEN family_lower \o S_bold_suffix ELSE family_lower
    IN  IF font_key \in DOMAIN FONT_MAP THEN FONT_MAP[font_key]
        ELSE IF family_lower \in DOMAIN FONT_MAP THEN FONT_MAP[family_lower]
        ELSE ""

\* the directories of FONT_PATHS, in order, where the file exists
ExistingAt(files, font_file) ==
    SelectSeq(FONT_PATHS, LAMBDA base_path : <<base_path, font_file>> \in DOMAIN files)

\* the platform fallback and the built-in font behind it
FallbackFont(files, size, weight) ==
    LET name == IF is_bold(weight) THEN "arialbd.ttf" ELSE "arial.ttf" IN
    IF TruetypeLoads(files, <<PlatformFonts, name>>, size)
    THEN [face |-> <<PlatformFonts, name>>, size |-> size]
    ELSE DefaultFont

\* _load_font with the truetype call in the directory loop outside any try
_load_font_Uncaught(files, family, size, weight) ==
    LET font_file == FontFile(family, weight)
        found == IF font_file = "" THEN <<>> ELSE ExistingAt(files, font_file)
    IN  IF found # <<>>
        THEN IF TruetypeLoads(files, <<found[1], font_file>>, size)
             THEN [raised |-> FALSE, font |-> [face |-> <<found[1], font_file>>, size |-> size]]
             ELSE [raised |-> TRUE, font |-> DefaultFont]
        ELSE [raised |-> FALSE, font |-> FallbackFont(files, size, weight)]

\* _load_font: the first directory whose copy of the file loads; a copy that
\* fails to load is logged and the next directory tried
_load_font(files, family, size, weight) ==
    LET font_file == FontFile(family, weight)
        found == IF font_file = "" THEN <<>> ELSE ExistingAt(files, font_file)
        loadable == SelectSeq(found, LAMBDA base_path :
                                  TruetypeLoads(files, <<base_path, font_file>>, size))
    IN  IF loadable # <<>>
        THEN [raised |-> FALSE, font |-> [face |-> <<loadable[1], font_file>>, size |-> size]]
        ELSE [raised |-> FALSE, font |-> FallbackFont(files, size, weight)]

\* cache_key without the size
cache_key_NoSize(family, size, weight) == <<Lower(family), 0, weight>>

\* cache_key without the weight
cache_key_NoWeight(family, size, weight) == <<Lower(family), size, "">>

\* cache_key with the family as given
cache_key_CaseSensitive(family, size, weight) == <<family, size, weight>>

\* cache_key = (family.lower(), size, weight)
cache_key(family, size, weight) == <<Lower(family), size, weight>>

\* FontManager._cache at class creation
EmptyCache == [k \in {} |-> DefaultFont]

\* get_font run without interruption: the font returned and the cache left
get_font(cache, files, family, size, weight) ==
    LET key == cache_key(family, size, weight)
        loaded == _load_font(files, family, size, weight)
    IN  IF key \in DOMAIN cache
        THEN [raised |-> FALSE, font |-> cache[key], cache |-> cache]
        ELSE IF loaded.raised
             THEN [raised |-> TRUE, font |-> DefaultFont, cache |-> cache]
             ELSE [raised |-> FALSE, font |-> loaded.font,
                   cache |-> (key :> loaded.font) @@ cache]

\* the bold faces, whose glyphs are wider
BoldFaces ==
    {"arialbd.ttf", "timesbd.ttf", "calibrib.ttf", "verdanab.ttf", "tahomabd.ttf",
     "georgiab.ttf", "Roboto-Bold.ttf"}

\* the advance of one character in a font, in pixels
Advance(font) == IF font.face[2] \in BoldFaces THEN 2 ELSE 1

\* ------------------------------------------------------------------------
\* Layers
\* ------------------------------------------------------------------------
NoColour == ""
NoBorder == [t |-> "absent", color |-> NoColour, width |-> 1]
Border(colour, width) == [t |-> "dict", color |-> colour, width |-> width]

\* a layer without a fontWeight key
NoWeight == ""

\* a layer without a textAlign key
NoAlign == ""

\* a layer without an objectFit key
NoFit == ""

RawLayer ==
    [id |-> "layer", type |-> "shape", x |-> 0, y |-> 0, width |-> 1, height |-> 1,
     zIndex |-> Absent, visible |-> Absent, field |-> Absent, text |-> Absent,
     color |-> NoColour, uppercase |-> Absent, lowercase |-> Absent,
     fill |-> NoColour, stroke |-> NoColour, src |-> Absent,
     border |-> NoBorder, objectFit |-> NoFit,
     fontFamily |-> Absent, fontSize |-> Absent, fontWeight |-> NoWeight,
     rotation |-> Absent, textAlign |-> NoAlign, lineHeight |-> Absent,
     opacity |-> Absent, locked |-> Absent, wordWrap |-> Absent,
     foregroundColor |-> NoColour, backgroundColor |-> NoColour]

ShapeLayer(id, x, y, w, h, z, fill) ==
    [RawLayer EXCEPT !.id = id, !.type = "shape", !.x = x, !.y = y, !.width = w,
                     !.height = h, !.zIndex = z, !.fill = fill]

TextLayer(id, x, y, z, field, text) ==
    [RawLayer EXCEPT !.id = id, !.type = "text", !.x = x, !.y = y, !.width = 2,
                     !.zIndex = z, !.field = field, !.text = text, !.color = "black"]

ImageLayer(id, x, y, w, h, z, field, src, border) ==
    [RawLayer EXCEPT !.id = id, !.type = "image", !.x = x, !.y = y, !.width = w,
                     !.height = h, !.zIndex = z, !.field = field, !.src = src,
                     !.border = border]

QRCodeLayer(id, x, y, w, h, z, field) ==
    [RawLayer EXCEPT !.id = id, !.type = "qr_code", !.x = x, !.y = y, !.width = w,
                     !.height = h, !.zIndex = z, !.field = field]

\* layer.get('zIndex', 0), the sort key
ZKey(layer) == Get(layer.zIndex, PyInt(0))

\* layer.get('visible', True)
Visible(layer) == Truthy(Get(layer.visible, PyBool(TRUE)))

\* ------------------------------------------------------------------------
\* Layer renderers.  Each returns the card as the call left it and whether
\* the call raised; a renderer draws on the card in place, so what was drawn
\* before an exception stays on the card.
\* ------------------------------------------------------------------------
Done(card) == [card |-> card, raised |-> FALSE]
Raised(card) == [card |-> card, raised |-> TRUE]

\* the text content of a text layer
ResolveText(layer, record) ==
    LET field == Get(layer.field, PyStr(<<>>)) IN
    IF field = PyStr(S_static)
    THEN Get(layer.text, PyStr(<<>>))
    ELSE PyStr(Str(DataGet(record, field, Get(layer.text, PyStr(<<>>)))))

\* the pixels a line of text inks when drawn in a font with its origin at
\* (x, y)
GlyphRun(line, x, y, font) ==
    {<<x + (i - 1) * Advance(font), y>> : i \in {k \in 1 .. Len(line) : line[k] # " "}}

\* layer.get('fontFamily', 'Arial'), int(layer.get('fontSize', 16)) and
\* layer.get('fontWeight', 'normal')
FontFamily(layer) == Get(layer.fontFamily, PyStr(S_Arial))
FontSize(layer) == Get(layer.fontSize, PyInt(16))
FontWeight(layer) == IF layer.fontWeight = NoWeight THEN "normal" ELSE layer.fontWeight

\* the text layer gets as far as FontManager.get_font and the call is made
\* with a family and a size it can take
AsksFont(layer, record) ==
    /\ layer.type = "text"
    /\ Truthy(ResolveText(layer, record))
    /\ FontFamily(layer).t = "str"
    /\ FontSize(layer).t \in {"int", "bool"}

\* the font files and FontManager._cache, as a renderer finds them
Fonts(files, cache) == [files |-> files, cache |-> cache]

\* FontManager._cache after the layer has been dispatched
LayerCache(fonts, layer, record) ==
    IF AsksFont(layer, record)
    THEN get_font(fonts.cache, fonts.files, FontFamily(layer).s, FontSize(layer).n,
                  FontWeight(layer)).cache
    ELSE fonts.cache

\* layer.get('textAlign', 'left'), layer.get('rotation', 0) and
\* layer.get('lineHeight', 1.2), the line height in tenths
TextAlign(layer) == IF layer.textAlign = NoAlign THEN "left" ELSE layer.textAlign
Rotation(layer) == Get(layer.rotation, PyInt(0))
LineHeight(layer) == Get(layer.lineHeight, PyInt(12))

\* line_spacing = int(font_size * line_height)
LineSpacing(layer) == (FontSize(layer).n * LineHeight(layer).n) \div 10

Max(a, b) == IF a >= b THEN a ELSE b

\* a chunk of textwrap: nothing but blanks (chunk.strip() == '')
IsBlank(chunk) == \A i \in 1 .. Len(chunk) : chunk[i] = " "

\* textwrap's split of a text without hyphens: the maximal runs of blanks
\* and of other characters, in order
RECURSIVE SplitChunks(_)
SplitChunks(text) ==
    IF text = <<>> THEN <<>>
    ELSE LET blank == text[1] = " "
             n == CHOOSE k \in 1 .. Len(text) :
                      /\ \A i \in 1 .. k : (text[i] = " ") = blank
                      /\ k = Len(text) \/ (text[k + 1] = " ") # blank
         IN  <<SubSeq(text, 1, n)>> \o SplitChunks(SubSeq(text, n + 1, Len(text)))

RECURSIVE JoinChunks(_)
JoinChunks(chunks) ==
    IF chunks = <<>> THEN <<>> ELSE Head(chunks) \o JoinChunks(Tail(chunks))

\* the chunks a line is filled from: a blank chunk is dropped at the start
\* of every line but the first
LineStart(chunks, lines) ==
    IF IsBlank(Head(chunks)) /\ lines # <<>> THEN Tail(chunks) ELSE chunks

\* the length of the first k chunks
TakenLen(left, k) == Len(JoinChunks(SubSeq(left, 1, k)))

\* how many chunks are taken while they fit the width
FitCount(left, width) ==
    CHOOSE k \in 0 .. Len(left) :
        /\ TakenLen(left, k) <= width
        /\ k = Len(left) \/ TakenLen(left, k + 1) > width

\* the next chunk is longer than the width (_handle_long_word breaks it
\* where the line is full)
LongWord(left, width) ==
    /\ FitCount(left, width) < Len(left)
    /\ Len(left[FitCount(left, width) + 1]) > width

\* cur_line: the chunks that fit and the piece of a long word
CurLine(left, width) ==
    IF LongWord(left, width)
    THEN Append(SubSeq(left, 1, FitCount(left, width)),
                SubSeq(left[FitCount(left, width) + 1], 1,
                       width - TakenLen(left, FitCount(left, width))))
    ELSE SubSeq(left, 1, FitCount(left, width))

\* the chunks left for the lines that follow
AfterLine(left, width) ==
    IF LongWord(left, width)
    THEN <<SubSeq(left[FitCount(left, width) + 1],
                  width - TakenLen(left, FitCount(left, width)) + 1,
                  Len(left[FitCount(left, width) + 1]))>>
             \o SubSeq(left, FitCount(left, width) + 2, Len(left))
    ELSE SubSeq(left, FitCount(left, width) + 1, Len(left))

\* a blank chunk is dropped at the end of the line
DropBlank(cur_line) ==
    IF cur_line # <<>> /\ IsBlank(Last(cur_line))
    THEN SubSeq(cur_line, 1, Len(cur_line) - 1)
    ELSE cur_line

\* TextWrapper._wrap_chunks with the defaults of textwrap.wrap: one line per
\* pass, appended when it is not empty
RECURSIVE WrapChunks(_, _, _)
WrapChunks(chunks, lines, width) ==
    IF chunks = <<>> THEN lines
    ELSE WrapChunks(AfterLine(LineStart(chunks, lines), width),
                    IF DropBlank(CurLine(LineStart(chunks, lines), width)) # <<>>
                    THEN Append(lines, JoinChunks(DropBlank(CurLine(LineStart(chunks, lines),
                                                                    width))))
                    ELSE lines,
                    width)

\* textwrap.wrap(text, width=chars_per_line)
Wrap(text, chars_per_line) == WrapChunks(SplitChunks(text), <<>>, chars_per_line)

\* if word_wrap and width > 0
Wraps(layer) == Truthy(layer.wordWrap) /\ layer.width > 0

\* chars_per_line = max(1, int(width / (font_size * 0.6))), for a layer that
\* wraps; the division raises for a font size of 0
WrapColumn(layer) ==
    IF FontSize(layer).n <= 0 THEN 1
    ELSE Max(1, (layer.width * 10) \div (FontSize(layer).n * 6))

\* TextLines for a renderer that never wraps
TextLines_NeverWraps(layer, shown) == <<shown>>

\* lines = textwrap.wrap(...) for a layer that wraps, lines = [text] otherwise
TextLines(layer, shown) ==
    IF Wraps(layer) THEN Wrap(shown, WrapColumn(layer)) ELSE <<shown>>

\* bbox[2] - bbox[0] of font.getbbox(line)
LineWidth(line, font) == Len(line) * Advance(font)

\* the widest line
MaxTextWidth(lines, font) ==
    IF lines = <<>> THEN 0
    ELSE CHOOSE m \in {LineWidth(lines[i], font) : i \in 1 .. Len(lines)} :
             \A i \in 1 .. Len(lines) : LineWidth(lines[i], font) <= m

\* AlignOffset with every line at the left edge
AlignOffset_LeftOnly(align, room, text_width) == 0

\* the shift of a line of text_width inside room, by alignment
AlignOffset(align, room, text_width) ==
    IF align = "center" THEN (room - text_width) \div 2
    ELSE IF align = "right" THEN room - text_width
    ELSE 0

\* the transparent margin of the rotation buffer
Padding == 20

\* the counter-clockwise angle of temp_img.rotate(-rotation), within a turn
Angle(rotation) == (360 - (rotation % 360)) % 360

\* Image.rotate(angle, expand=True) for the quarter turns, counter-clockwise
Rotate(img, angle) ==
    CASE angle = 0 -> img
      [] angle = 90 ->
            [w |-> img.h, h |-> img.w,
             px |-> [p \in Pixels(img.h, img.w) |-> img.px[<<img.w - 1 - p[2], p[1]>>]]]
      [] angle = 180 ->
            [w |-> img.w, h |-> img.h,
             px |-> [p \in Pixels(img.w, img.h) |->
                        img.px[<<img.w - 1 - p[1], img.h - 1 - p[2]>>]]]
      [] angle = 270 ->
            [w |-> img.h, h |-> img.w,
             px |-> [p \in Pixels(img.h, img.w) |-> img.px[<<p[2], img.h - 1 - p[1]>>]]]

\* where Rotate takes the pixel p of a w x h image
RotatePoint(p, w, h, angle) ==
    CASE angle = 0 -> p
      [] angle = 90 -> <<p[2], w - 1 - p[1]>>
      [] angle = 180 -> <<w - 1 - p[1], h - 1 - p[2]>>
      [] angle = 270 -> <<h - 1 - p[2], p[1]>>

\* the measures of render_text_layer: the lines, the rotation buffer and
\* where it is pasted, and the origin each line is drawn at (in the buffer
\* when the layer is rotated, on the card when it is not)
TextGeometry(layer, shown, font) ==
    LET lines == TextLines(layer, shown)
        line_spacing == LineSpacing(layer)
        max_text_width == MaxTextWidth(lines, font)
        rotated == Rotation(layer) # PyInt(0)
        temp_width == Max(layer.width, max_text_width) + Padding * 2
        temp_height == Max(layer.height, Len(lines) * line_spacing) + Padding * 2
        angle == Angle(Rotation(layer).n)
        quarter == angle \in {90, 270}
        rotated_width == IF quarter THEN temp_height ELSE temp_width
        rotated_height == IF quarter THEN temp_width ELSE temp_height
    IN  [rotated |-> rotated,
         lines |-> lines,
         temp_width |-> temp_width,
         temp_height |-> temp_height,
         angle |-> angle,
         paste_x |-> layer.x - (rotated_width - temp_width) \div 2,
         paste_y |-> layer.y - (rotated_height - temp_height) \div 2,
         origins |->
             [i \in 1 .. Len(lines) |->
                 IF rotated
                 THEN <<Padding + AlignOffset(TextAlign(layer), max_text_width,
                                              LineWidth(lines[i], font)),
                        Padding + (i - 1) * line_spacing>>
                 ELSE <<layer.x + AlignOffset(TextAlign(layer), layer.width,
                                              LineWidth(lines[i], font)),
                        layer.y + (i - 1) * line_spacing>>]]

\* the pixels the lines ink, each drawn at its origin
InkOfLines(geometry, font) ==
    UNION {GlyphRun(geometry.lines[i], geometry.origins[i][1], geometry.origins[i][2], font) :
               i \in 1 .. Len(geometry.lines)}

\* where on the card the top-left of each line lands
CanvasOrigins(geometry) ==
    [i \in 1 .. Len(geometry.lines) |->
        IF geometry.rotated
        THEN LET q == RotatePoint(geometry.origins[i], geometry.temp_width,
                                  geometry.temp_height, geometry.angle)
             IN  <<geometry.paste_x + q[1], geometry.paste_y + q[2]>>
        ELSE geometry.origins[i]]

\* render_text_layer for a shadowless layer turned by a multiple of a
\* quarter turn
render_text_layer(card, layer, record, fonts) ==
    LET text == ResolveText(layer, record)
        shown == IF Truthy(layer.uppercase) THEN Upper(text.s)
                 ELSE IF Truthy(layer.lowercase) THEN Lower(text.s)
                 ELSE text.s
        font == get_font(fonts.cache, fonts.files, FontFamily(layer).s,
                         FontSize(layer).n, FontWeight(layer))
        color == IF layer.color = NoColour THEN "black" ELSE layer.color
        geometry == TextGeometry(layer, shown, font.font)
        temp_img == Fill(NewImage(geometry.temp_width, geometry.temp_height, Transparent),
                         InkOfLines(geometry, font.font), color)
    IN  IF ~Truthy(text) THEN Done(card)
        ELSE IF ~AsksFont(layer, record) \/ font.raised THEN Raised(card)
        ELSE IF Wraps(layer) /\ FontSize(layer).n = 0 THEN Raised(card)
        ELSE IF LineHeight(layer).t \notin {"int", "bool"} THEN Raised(card)
        ELSE IF color \notin ValidColours THEN Raised(card)
        ELSE IF ~geometry.rotated
             THEN Done(Fill(card, InkOfLines(geometry, font.font), color))
        ELSE IF Rotation(layer).t \notin {"int", "bool"} THEN Raised(card)
        ELSE Done(PasteMasked(card, Rotate(temp_img, geometry.angle),
                              geometry.paste_x, geometry.paste_y))

\* ImageOps.fit(img, (w, h), centering=(0.5, 0.5)): centre crop to the box's
\* aspect ratio, then resize
Cover(img, w, h) ==
    LET wide == img.w * h >= w * img.h
        cw == IF wide THEN (w * img.h) \div h ELSE img.w
        ch == IF wide THEN img.h ELSE (h * img.w) \div w
        cx == (img.w - cw) \div 2
        cy == (img.h - ch) \div 2
    IN  [w |-> w, h |-> h,
         px |-> [p \in Pixels(w, h) |->
                    img.px[<<cx + (p[1] * cw) \div w, cy + (p[2] * ch) \div h>>]]]

\* Image.thumbnail((w, h)): the size the bitmap is shrunk to, its aspect
\* ratio kept; of the two whole sizes around the exact one the closer in
\* aspect ratio is taken, and never less than one pixel
ThumbnailSize(img, w, h) ==
    IF w >= img.w /\ h >= img.h THEN <<img.w, img.h>>
    ELSE IF w * img.h >= img.w * h
         THEN LET lo == (h * img.w) \div img.h
                  hi == IF lo * img.h = h * img.w THEN lo ELSE lo + 1
                  err(n) == IF n * img.h >= h * img.w THEN n * img.h - h * img.w
                            ELSE h * img.w - n * img.h
              IN  <<Max(IF err(lo) <= err(hi) THEN lo ELSE hi, 1), h>>
         ELSE LET lo == (w * img.h) \div img.w
                  hi == IF lo * img.w = w * img.h THEN lo ELSE lo + 1
                  err(n) == IF n * img.w >= w * img.h THEN n * img.w - w * img.h
                            ELSE w * img.h - n * img.w
              IN  <<w, Max(IF lo = 0 \/ err(lo) * hi <= err(hi) * lo THEN lo ELSE hi, 1)>>

\* object-fit contain: the thumbnail centred on a transparent box
Contain(img, w, h) ==
    LET size == ThumbnailSize(img, w, h)
        thumb == Resize(img, size[1], size[2])
        paste_x == (w - size[1]) \div 2
        paste_y == (h - size[2]) \div 2
    IN  PasteMasked(NewImage(w, h, Transparent), thumb, paste_x, paste_y)

\* layer.get('objectFit', 'cover')
ObjectFit(layer) == IF layer.objectFit = NoFit THEN "cover" ELSE layer.objectFit

\* FitImage with the bitmap stretched to the box for object-fit cover
FitImage_Stretch(img, object_fit, width, height) ==
    IF object_fit \in {"cover", "fill"} THEN Resize(img, width, height)
    ELSE IF object_fit = "contain" THEN Contain(img, width, height)
    ELSE img

\* the bitmap after the object-fit branch; 'none' and any other value keep
\* the bitmap at its own size
FitImage(img, object_fit, width, height) ==
    IF object_fit = "cover" THEN Cover(img, width, height)
    ELSE IF object_fit = "contain" THEN Contain(img, width, height)
    ELSE IF object_fit = "fill" THEN Resize(img, width, height)
    ELSE img

\* LayerBitmap with the photo given to every image layer
LayerBitmap_AnyField(layer, photo_image) ==
    IF photo_image # EmptyCard
    THEN photo_image
    ELSE IF Truthy(layer.src)
         THEN LET img_path == ResolveSrc(layer.src.s) IN
              IF PathExists(img_path) /\ FileSystem[img_path].ok
              THEN FileSystem[img_path].img
              ELSE EmptyCard
         ELSE EmptyCard

\* the bitmap of an image layer, EmptyCard when there is none
LayerBitmap(layer, photo_image) ==
    IF layer.field = PyStr(S_photo) /\ photo_image # EmptyCard
    THEN photo_image
    ELSE IF Truthy(layer.src)
         THEN LET img_path == ResolveSrc(layer.src.s) IN
              IF PathExists(img_path) /\ FileSystem[img_path].ok
              THEN FileSystem[img_path].img
              ELSE EmptyCard
         ELSE EmptyCard

\* render_image_layer without a corner radius: the fitted bitmap is pasted
\* first, the border is stroked afterwards
render_image_layer(card, layer, photo_image) ==
    LET img == LayerBitmap(layer, photo_image)
        x == layer.x
        y == layer.y
        width == layer.width
        height == layer.height
        object_fit == ObjectFit(layer)
        pasted == PasteMasked(card, FitImage(img, object_fit, width, height), x, y)
        outline == Box(x, y, x + width, y + height)
                       \ Box(x + 1, y + 1, x + width - 1, y + height - 1)
    IN  IF img = EmptyCard THEN Done(card)
        ELSE IF object_fit \in {"cover", "contain", "fill"} /\ (width <= 0 \/ height <= 0)
             THEN Raised(card)
        ELSE IF layer.border.t = "absent" THEN Done(pasted)
        ELSE IF layer.border.color \notin ValidColours THEN Raised(pasted)
        ELSE Done(Fill(pasted, outline, layer.border.color))

\* render_shape_layer for a rectangle: fill, then outline
render_shape_layer(card, layer) ==
    LET x == layer.x
        y == layer.y
        width == layer.width
        height == layer.height
        filled == IF layer.fill = NoColour THEN card
                  ELSE Fill(card, Box(x, y, x + width, y + height), layer.fill)
        outline == Box(x, y, x + width, y + height)
                       \ Box(x + 1, y + 1, x + width - 1, y + height - 1)
    IN  IF layer.fill # NoColour /\ layer.fill \notin ValidColours THEN Raised(card)
        ELSE IF layer.stroke # NoColour /\ layer.stroke \notin ValidColours
             THEN Raised(card)
        ELSE IF layer.stroke # NoColour /\ layer.stroke # layer.fill
             THEN Done(Fill(filled, outline, layer.stroke))
        ELSE Done(filled)

\* the module grid of a QR symbol, resampled to w x h
QRImage(content, w, h) ==
    [w |-> w, h |-> h,
     px |-> [p \in Pixels(w, h) |->
                IF (p[1] + p[2] + Len(content)) % 2 = 0 THEN "black" ELSE "white"]]

\* layer.get('foregroundColor', '#000000') and
\* layer.get('backgroundColor', '#ffffff')
ForegroundColor(layer) ==
    IF layer.foregroundColor = NoColour THEN "black" ELSE layer.foregroundColor
BackgroundColor(layer) ==
    IF layer.backgroundColor = NoColour THEN "white" ELSE layer.backgroundColor

\* qr.make_image(fill_color, back_color) resized to the layer's box: the
\* dark modules in the foreground colour, everything else, the quiet zone
\* included, in the background colour
QRBitmap(layer, content) ==
    [w |-> layer.width, h |-> layer.height,
     px |-> [p \in Pixels(layer.width, layer.height) |->
                IF QRImage(content, layer.width, layer.height).px[p] = "black"
                THEN ForegroundColor(layer) ELSE BackgroundColor(layer)]]

\* render_qr_code_layer pasting through the symbol's own alpha channel
render_qr_code_layer_Masked(card, layer, record) ==
    LET field == Get(layer.field, PyStr(S_id_number))
        content == Str(DataGet(record, field, PyStr(<<>>)))
    IN  IF content = <<>> THEN Done(card)
        ELSE IF layer.width <= 0 \/ layer.height <= 0 THEN Raised(card)
        ELSE IF {ForegroundColor(layer), BackgroundColor(layer)}
                    \ (ValidColours \cup {Transparent}) # {}
             THEN Raised(card)
        ELSE Done(PasteMasked(card, QRBitmap(layer, content), layer.x, layer.y))

\* render_qr_code_layer falling back to the layer's literal text, as a text
\* layer does
render_qr_code_layer_Literal(card, layer, record) ==
    LET field == Get(layer.field, PyStr(S_id_number))
        content == Str(DataGet(record, field, Get(layer.text, PyStr(<<>>))))
    IN  IF content = <<>> THEN Done(card)
        ELSE IF layer.width <= 0 \/ layer.height <= 0 THEN Raised(card)
        ELSE Done(Paste(card, QRImage(content, layer.width, layer.height),
                        layer.x, layer.y))

\* render_qr_code_layer
render_qr_code_layer(card, layer, record) ==
    LET field == Get(layer.field, PyStr(S_id_number))
        content == Str(DataGet(record, field, PyStr(<<>>)))
    IN  IF content = <<>> THEN Done(card)
        ELSE IF layer.width <= 0 \/ layer.height <= 0 THEN Raised(card)
        ELSE IF {ForegroundColor(layer), BackgroundColor(layer)}
                    \ (ValidColours \cup {Transparent}) # {}
             THEN Raised(card)
        ELSE Done(Paste(card, QRBitmap(layer, content), layer.x, layer.y))

\* layer.get('opacity', 1.0), in percent; render reads it and does not use it
Opacity(layer) == Get(layer.opacity, PyInt(100))

KnownTypes == {"text", "image", "shape", "qr_code"}

\* the body of the dispatch loop's try block for one visible layer
\* RenderLayer with a layer of opacity 0 painting nothing
RenderLayer_Translucent(card, layer, record, photo_image, fonts) ==
    IF Opacity(layer) = PyInt(0) THEN Done(card)
    ELSE CASE layer.type = "text" -> render_text_layer(card, layer, record, fonts)
           [] layer.type = "image" -> render_image_layer(card, layer, photo_image)
           [] layer.type = "shape" -> render_shape_layer(card, layer)
           [] layer.type = "qr_code" -> render_qr_code_layer(card, layer, record)
           [] OTHER -> Done(card)

RenderLayer(card, layer, record, photo_image, fonts) ==
    CASE layer.type = "text" -> render_text_layer(card, layer, record, fonts)
      [] layer.type = "image" -> render_image_layer(card, layer, photo_image)
      [] layer.type = "shape" -> render_shape_layer(card, layer)
      [] layer.type = "qr_code" -> render_qr_code_layer(card, layer, record)
      [] OTHER -> Done(card)

\* ------------------------------------------------------------------------
\* The z-order sort: sorted(layers, key=zIndex), stable and ascending
\* ------------------------------------------------------------------------
KeyClass(v) == IF v.t \in {"int", "bool"} THEN "number" ELSE v.t

\* '<' is undefined on None and between a number and a string
SortRaises(layers) ==
    /\ Len(layers) >= 2
    /\ \/ \E i \in 1 .. Len(layers) : KeyClass(ZKey(layers[i])) \notin {"number", "str"}
       \/ \E i, j \in 1 .. Len(layers) :
              KeyClass(ZKey(layers[i])) # KeyClass(ZKey(layers[j]))

\* InsertByZ with the layer put before the elements of equal key
InsertByZ_BeforeEquals(sorted, layer) ==
    LET n == Cardinality({i \in 1 .. Len(sorted) : ZKey(sorted[i]).n < ZKey(layer).n})
    IN  SubSeq(sorted, 1, n) \o <<layer>> \o SubSeq(sorted, n + 1, Len(sorted))

\* layer goes after every element whose key is not greater than its own
InsertByZ(sorted, layer) ==
    LET n == Cardinality({i \in 1 .. Len(sorted) : ZKey(sorted[i]).n <= ZKey(layer).n})
    IN  SubSeq(sorted, 1, n) \o <<layer>> \o SubSeq(sorted, n + 1, Len(sorted))

\* SortByZ with the sort left out: the storage order
SortByZ_StorageOrder(layers) == layers

RECURSIVE SortByZ(_)
SortByZ(layers) ==
    IF layers = <<>> THEN <<>>
    ELSE InsertByZ(SortByZ(SubSeq(layers, 1, Len(layers) - 1)), Last(layers))

\* ------------------------------------------------------------------------
\* Templates
\* ------------------------------------------------------------------------
NoLayers == [t |-> "absent", v |-> <<>>]
LayerList(seq) == [t |-> "list", v |-> seq]

\* a side as stored: a dict, a missing key, null, or a bare list
DictSide(bg, layers) == [t |-> "dict", backgroundImage |-> bg, layers |-> layers]
AbsentSide == [t |-> "absent", backgroundImage |-> Absent, layers |-> NoLayers]
NullSide == [t |-> "none", backgroundImage |-> Absent, layers |-> NoLayers]
ListSide == [t |-> "list", backgroundImage |-> Absent, layers |-> NoLayers]
UnsetSide == [t |-> "unset", backgroundImage |-> Absent, layers |-> NoLayers]

Canvas == [width |-> CanvasW, height |-> CanvasH, backgroundColor |-> "white"]

NoTemplate == [t |-> "none", canvas |-> Canvas, front |-> AbsentSide, back |-> AbsentSide]
Template(front, back) == [t |-> "dict", canvas |-> Canvas, front |-> front, back |-> back]

\* template.get(side, {})
SideData(tpl, which) ==
    LET v == IF which = "front" THEN tpl.front ELSE tpl.back IN
    IF v.t = "absent" THEN DictSide(Absent, NoLayers) ELSE v

\* side_data.get('layers', [])
LayersOf(side_data) == side_data.layers.v

\* ------------------------------------------------------------------------
\* Inputs of a render call
\* ------------------------------------------------------------------------
Str_ID == <<"I", "D">>

LayerPool ==
    { ShapeLayer("red", 0, 0, 1, 1, PyInt(2), "red"),
      ShapeLayer("blue", 1, 0, 3, 3, PyInt(1), "blue"),
      [ShapeLayer("hidden", 0, 0, 2, 1, PyInt(3), "green") EXCEPT !.visible = PyBool(FALSE)],
      [ShapeLayer("hidden_null_z", 0, 0, 2, 1, PyNone, "green") EXCEPT !.visible = PyBool(FALSE)],
      ShapeLayer("null_z", 0, 1, 0, 0, PyNone, "grey"),
      ShapeLayer("bad_fill", 0, 0, 1, 0, PyInt(1), "no-such-colour"),
      [ShapeLayer("sticker", 0, 0, 1, 1, Absent, "red") EXCEPT !.type = "sticker"],
      TextLayer("title", 0, 1, PyInt(3), PyStr(S_static), PyStr(Str_ID)),
      [TextLayer("name", 1, 0, PyInt(2), PyStr(S_full_name), PyStr(<<"x">>))
          EXCEPT !.uppercase = PyBool(TRUE)],
      TextLayer("nick_null", 0, 0, PyInt(1), PyStr(S_nickname), PyNone),
      TextLayer("nick_unset", 0, 0, PyInt(1), PyStr(S_nickname), Absent),
      TextLayer("static_unset", 0, 0, PyInt(1), PyStr(S_static), Absent),
      ImageLayer("portrait", 0 - 1, 0, 2, 2, PyInt(1), PyStr(S_photo), PyStr(<<"logo.png">>),
                 Border("no-such-colour", 1)),
      ImageLayer("gone", 0, 0, 1, 1, PyInt(2), Absent, PyStr(<<"gone.png">>),
                 Border("black", 1)),
      ImageLayer("logo", 2, 0, 1, 2, Absent, Absent, PyStr(<<"logo.png">>), NoBorder),
      [QRCodeLayer("qr", 1, 0, 2, 2, PyInt(4), PyStr(S_id_number))
          EXCEPT !.text = PyStr(Str_ID)] }

RECURSIVE SeqsUpTo(_, _)
SeqsUpTo(S, n) ==
    IF n = 0 THEN {<<>>}
    ELSE LET shorter == SeqsUpTo(S, n - 1) IN
         shorter \cup {Append(q, e) : q \in shorter, e \in S}

BackgroundPool ==
    { Absent,
      PyInt(5),
      PyStr(<<"", "old", "dir", "bg.png">>),
      PyStr(<<"", "api", "templates", "backgrounds", "teacher", "gone.png">>),
      PyStr(<<"corrupt.png">>) }

FrontSides ==
    {AbsentSide, NullSide, ListSide}
    \cup {DictSide(bg, NoLayers) : bg \in BackgroundPool}
    \cup {DictSide(bg, LayerList(q)) : bg \in BackgroundPool, q \in SeqsUpTo(LayerPool, MaxLayers)}

BackSide == DictSide(PyStr(<<"bg.png">>), LayerList(<<TextLayer("title", 0, 1, PyInt(3), PyStr(S_static), PyStr(Str_ID))>>))

TemplatePool == {NoTemplate} \cup {Template(f, BackSide) : f \in FrontSides}

DataPool ==
    { <<>>,
      (S_full_name :> PyStr(<<"a", "l">>)) @@ (S_id_number :> PyInt(7))
          @@ (S_static :> PyStr(<<"Z">>)),
      (S_full_name :> PyNone) @@ (S_id_number :> PyStr(<<>>)) }

PhotoPool == {EmptyCard, PhotoImage}

\* font files: a Windows host with Arial installed
WindowsFonts ==
    (<<"C:/Windows/Fonts", "arial.ttf">> :> "ok")
    @@ (<<"C:/Windows/Fonts", "arialbd.ttf">> :> "ok")
    @@ (<<"C:/WINDOWS/FONTS", "arial.ttf">> :> "ok")
    @@ (<<"C:/WINDOWS/FONTS", "arialbd.ttf">> :> "ok")
    @@ (<<PlatformFonts, "arial.ttf">> :> "ok")
    @@ (<<PlatformFonts, "arialbd.ttf">> :> "ok")

\* ------------------------------------------------------------------------
\* TemplateRenderer.render as a state machine
\* ------------------------------------------------------------------------
\* State.  One render call: its arguments (template, data, photo_image, side)
\* and its locals.  The process: the font files on disk and FontManager's
\* class-level cache.  getters are threads inside get_font, calls are render
\* calls running side by side, lookup is an asset reference being resolved,
\* layout is a text layer being laid out.
VARIABLES template, data, photo_image, side,
          pc, card, side_data, sorted_layers, idx, history, error,
          font_files, font_cache, getters, calls, lookup, layout, paint, pair, id_templates, requests

inputs == <<template, data, photo_image, side>>
\* the state outside one render call and the font cache
elsewhere == <<font_files, getters, calls, lookup, layout, paint, pair, id_templates, requests>>
vars == <<template, data, photo_image, side,
          pc, card, side_data, sorted_layers, idx, history, error,
          font_files, font_cache, getters, calls, lookup, layout, paint, pair, id_templates, requests>>

Init ==
    /\ template \in TemplatePool
    /\ data \in DataPool
    /\ photo_image \in PhotoPool
    /\ side \in {"front", "back"}
    /\ side = "back" => (template = Template(AbsentSide, BackSide) /\ data = <<>>
                            /\ photo_image = EmptyCard)
    /\ pc = "canvas"
    /\ card = EmptyCard
    /\ side_data = UnsetSide
    /\ sorted_layers = <<>>
    /\ idx = 0
    /\ history = <<>>
    /\ error = "none"
    /\ font_files = WindowsFonts
    /\ font_cache = EmptyCache
    /\ requests = <<>>
    /\ id_templates = <<>>
    /\ pair = <<>>
    /\ paint = <<>>
    /\ getters = <<>>
    /\ calls = <<>>
    /\ lookup = <<>>
    /\ layout = <<>>

\* canvas = template.get('canvas', {}) ... card = Image.new(...)
AllocateCanvas ==
    /\ pc = "canvas"
    /\ IF template.t = "none"
       THEN /\ pc' = "raised"
            /\ error' = "template"
            /\ card' = card
       ELSE /\ pc' = "side"
            /\ error' = error
            /\ card' = NewImage(template.canvas.width, template.canvas.height,
                                template.canvas.backgroundColor)
    /\ UNCHANGED <<elsewhere, font_cache, inputs, side_data, sorted_layers, idx, history>>

\* side_data = template.get(side, {}); bg_image = side_data.get('backgroundImage')
GetSide ==
    /\ pc = "side"
    /\ side_data' = SideData(template, side)
    /\ IF side_data'.t # "dict"
       THEN pc' = "raised" /\ error' = "side"
       ELSE pc' = "background" /\ error' = error
    /\ UNCHANGED <<elsewhere, font_cache, inputs, card, sorted_layers, idx, history>>

\* if bg_image: resolve, load and paste, or log and go on
Background ==
    /\ pc = "background"
    /\ LET bg_image == side_data.backgroundImage IN
       IF ~Truthy(bg_image)
       THEN pc' = "sort" /\ error' = error /\ card' = card
       ELSE IF BackgroundRaises(bg_image)
            THEN pc' = "raised" /\ error' = "background" /\ card' = card
            ELSE pc' = "sort" /\ error' = error /\ card' = LoadBackground(card, bg_image)
    /\ UNCHANGED <<elsewhere, font_cache, inputs, side_data, sorted_layers, idx, history>>

\* SortLayers with layers.sort(...) in place of sorted(layers, ...)
SortLayers_InPlace ==
    /\ pc = "sort"
    /\ IF SortRaises(LayersOf(side_data))
       THEN /\ pc' = "raised"
            /\ error' = "sort"
            /\ UNCHANGED <<sorted_layers, idx, template>>
       ELSE /\ pc' = "loop"
            /\ error' = error
            /\ sorted_layers' = SortByZ(LayersOf(side_data))
            /\ idx' = 1
            /\ template' = [template EXCEPT ![side].layers.v = SortByZ(LayersOf(side_data))]
    /\ UNCHANGED <<elsewhere, font_cache, data, photo_image, side, card, side_data, history>>

\* layers = side_data.get('layers', []); sorted_layers = sorted(layers, ...)
SortLayers ==
    /\ pc = "sort"
    /\ IF SortRaises(LayersOf(side_data))
       THEN /\ pc' = "raised"
            /\ error' = "sort"
            /\ UNCHANGED <<sorted_layers, idx>>
       ELSE /\ pc' = "loop"
            /\ error' = error
            /\ sorted_layers' = SortByZ(LayersOf(side_data))
            /\ idx' = 1
    /\ UNCHANGED <<elsewhere, font_cache, inputs, card, side_data, history>>

\* if not layer.get('visible', True): continue
SkipHidden ==
    /\ pc = "loop"
    /\ idx <= Len(sorted_layers)
    /\ ~Visible(sorted_layers[idx])
    /\ idx' = idx + 1
    /\ UNCHANGED <<elsewhere, font_cache, inputs, pc, card, side_data, sorted_layers, history, error>>

\* DispatchLayer without the except clause: the exception leaves render
DispatchLayer_Propagates ==
    /\ pc = "loop"
    /\ idx <= Len(sorted_layers)
    /\ Visible(sorted_layers[idx])
    /\ LET layer == sorted_layers[idx]
           result == RenderLayer(card, layer, data, photo_image, Fonts(font_files, font_cache))
       IN  /\ card' = result.card
           /\ history' = Append(history,
                  [pos |-> idx, layer |-> layer, before |-> card, after |-> result.card,
                   outcome |-> IF result.raised THEN "failed"
                               ELSE IF layer.type \in KnownTypes THEN "rendered"
                               ELSE "unknown"])
           /\ pc' = IF result.raised THEN "raised" ELSE pc
    /\ idx' = idx + 1
    /\ font_cache' = LayerCache(Fonts(font_files, font_cache), sorted_layers[idx], data)
    /\ UNCHANGED <<elsewhere, inputs, side_data, sorted_layers, error>>

\* one pass of the try/except: the renderer runs, an exception is logged
DispatchLayer ==
    /\ pc = "loop"
    /\ idx <= Len(sorted_layers)
    /\ Visible(sorted_layers[idx])
    /\ LET layer == sorted_layers[idx]
           result == RenderLayer(card, layer, data, photo_image, Fonts(font_files, font_cache))
       IN  /\ card' = result.card
           /\ history' = Append(history,
                  [pos |-> idx, layer |-> layer, before |-> card, after |-> result.card,
                   outcome |-> IF result.raised THEN "failed"
                               ELSE IF layer.type \in KnownTypes THEN "rendered"
                               ELSE "unknown"])
    /\ idx' = idx + 1
    /\ font_cache' = LayerCache(Fonts(font_files, font_cache), sorted_layers[idx], data)
    /\ UNCHANGED <<elsewhere, inputs, pc, side_data, sorted_layers, error>>

\* return card
Return ==
    /\ pc = "loop"
    /\ idx > Len(sorted_layers)
    /\ pc' = "done"
    /\ UNCHANGED <<elsewhere, font_cache, inputs, card, side_data, sorted_layers, idx, history, error>>

Next ==
    \/ AllocateCanvas
    \/ GetSide
    \/ Background
    \/ SortLayers
    \/ SkipHidden
    \/ DispatchLayer
    \/ Return

Spec == Init /\ [][Next]_vars

TypeOK ==
    /\ pc \in {"canvas", "side", "background", "sort", "loop", "done", "raised"}
    /\ error \in {"none", "template", "side", "background", "sort"}
    /\ idx \in 0 .. (MaxLayers + 1)
    /\ Len(history) <= MaxLayers

\* ------------------------------------------------------------------------
\* render as a function of its inputs, composed of the same steps
\* ------------------------------------------------------------------------
RECURSIVE PaintLayers(_, _, _, _, _)
PaintLayers(c, layers, record, photo, fonts) ==
    IF layers = <<>> THEN c
    ELSE IF Visible(Head(layers))
         THEN PaintLayers(RenderLayer(c, Head(layers), record, photo, fonts).card,
                          Tail(layers), record, photo,
                          Fonts(fonts.files, LayerCache(fonts, Head(layers), record)))
         ELSE PaintLayers(c, Tail(layers), record, photo, fonts)

\* the font files with the cache of a fresh process
ColdFonts == Fonts(font_files, EmptyCache)

FlatCard(tpl) ==
    NewImage(tpl.canvas.width, tpl.canvas.height, tpl.canvas.backgroundColor)

RenderCall(tpl, record, photo, which) ==
    LET sd == SideData(tpl, which)
        bg == sd.backgroundImage
        base == IF Truthy(bg) THEN LoadBackground(FlatCard(tpl), bg) ELSE FlatCard(tpl)
    IN  IF \/ tpl.t = "none"
           \/ sd.t # "dict"
           \/ BackgroundRaises(bg)
           \/ SortRaises(LayersOf(sd))
        THEN [outcome |-> "raised", card |-> EmptyCard]
        ELSE [outcome |-> "done",
              card |-> PaintLayers(base, SortByZ(LayersOf(sd)), record, photo, ColdFonts)]

\* the layer list of the selected side, as stored
StoredLayers == LayersOf(SideData(template, side))

\* the pixels a layer paints and their colours, whatever lies beneath
Probe == NewImage(CanvasW, CanvasH, "probe")
Inked(layer) == RenderLayer(Probe, layer, data, photo_image, ColdFonts).card
Ink(layer) == {p \in DOMAIN Probe.px : Inked(layer).px[p] # "probe"}

Finished == pc \in {"done", "raised"}

\* the stepwise run and the function agree
RunMatchesCall ==
    Finished => /\ RenderCall(template, data, photo_image, side).outcome = pc
                /\ pc = "done" => RenderCall(template, data, photo_image, side).card = card

\* ------------------------------------------------------------------------
\* Paint order and the dispatch loop
\* ------------------------------------------------------------------------
\* some pair of visible layers is stored with the higher zIndex first and
\* both paint a common pixel in different colours
StoredAgainstZOrder ==
    \E i, j \in 1 .. Len(StoredLayers) :
        LET a == StoredLayers[i]
            b == StoredLayers[j]
        IN  /\ i < j
            /\ Visible(a) /\ Visible(b)
            /\ ZKey(a).n > ZKey(b).n
            /\ \E p \in Ink(a) \cap Ink(b) :
                   /\ Inked(a).px[p] # Inked(b).px[p]
                   /\ card.px[p] = Inked(a).px[p]

\* C1: layers are painted in ascending zIndex whatever their storage order,
\* so once render has returned, a pixel painted by several visible layers
\* holds the colour of the one whose zIndex is strictly the highest.
C1_PaintOrderFollowsZIndex ==
    /\ \A i, j \in 1 .. Len(history) :
           i < j => ZKey(history[i].layer).n <= ZKey(history[j].layer).n
    /\ pc = "done" =>
           \A j \in 1 .. Len(StoredLayers) : \A p \in Ink(StoredLayers[j]) :
               ( /\ Visible(StoredLayers[j])
                 /\ \A i \in 1 .. Len(StoredLayers) :
                        (i # j /\ Visible(StoredLayers[i]) /\ p \in Ink(StoredLayers[i]))
                            => ZKey(StoredLayers[i]).n < ZKey(StoredLayers[j]).n )
               => card.px[p] = Inked(StoredLayers[j]).px[p]

C1_Witness == pc = "done" /\ StoredAgainstZOrder

\* the template with entry i of the selected side's layer list removed
WithoutLayer(i) ==
    LET sd == SideData(template, side)
        kept == SubSeq(sd.layers.v, 1, i - 1) \o SubSeq(sd.layers.v, i + 1, Len(sd.layers.v))
        cut == [sd EXCEPT !.layers = LayerList(kept)]
    IN  IF side = "front" THEN [template EXCEPT !.front = cut]
        ELSE [template EXCEPT !.back = cut]

\* C2: a layer with visible == false is never dispatched, and the call ends
\* as the call on the template without that layer ends: same outcome and,
\* pixel for pixel, the same canvas.
C2_HiddenLayerIsAsRemoved ==
    /\ \A k \in 1 .. Len(history) : history[k].layer.visible # PyBool(FALSE)
    /\ Finished =>
           \A i \in 1 .. Len(StoredLayers) :
               StoredLayers[i].visible = PyBool(FALSE) =>
                   LET other == RenderCall(WithoutLayer(i), data, photo_image, side) IN
                   /\ other.outcome = pc
                   /\ pc = "done" => other.card = card

\* the positions of the visible layers among the first n sorted layers
RECURSIVE VisiblePositions(_)
VisiblePositions(n) ==
    IF n = 0 THEN <<>>
    ELSE IF Visible(sorted_layers[n]) THEN Append(VisiblePositions(n - 1), n)
    ELSE VisiblePositions(n - 1)

\* C3: a layer whose renderer raises, or whose type tag is unknown, does not
\* end the dispatch loop: every visible layer is dispatched, in sorted order,
\* and no call that has entered the loop ends by raising.
C3_LoopIsolatesFaults ==
    /\ pc = "raised" => (history = <<>> /\ idx = 0)
    /\ pc \in {"loop", "done"} =>
           /\ [k \in 1 .. Len(history) |-> history[k].pos] = VisiblePositions(idx - 1)
           /\ \A k \in 1 .. Len(history) : history[k].layer = sorted_layers[history[k].pos]
    /\ pc = "done" => idx = Len(sorted_layers) + 1

C3_Witness ==
    /\ pc = "done"
    /\ \E i, j \in 1 .. Len(history) :
           /\ i < j
           /\ history[i].outcome \in {"failed", "unknown"}
           /\ history[j].outcome = "rendered"
           /\ history[j].after # history[j].before

\* the template, its canvas and the selected side have the stored shape
WellFormed ==
    /\ template.t = "dict"
    /\ (IF side = "front" THEN template.front ELSE template.back).t = "dict"
    /\ SideData(template, side).backgroundImage.t \in {"absent", "none", "str"}
    /\ SideData(template, side).layers.t = "list"

\* C4: on a well-formed template render returns a bitmap, whatever is wrong
\* with a single layer entry.
C4_WellFormedNeverRaises == WellFormed => pc # "raised"

\* C5: without a template, or with a selected side that is absent or not
\* shaped as {backgroundImage, layers}, render does not return a bitmap.
C5_MalformedNeverReturns ==
    ( \/ template.t = "none"
      \/ (IF side = "front" THEN template.front ELSE template.back).t # "dict"
      \/ SideData(template, side).layers.t # "list" )
    => pc # "done"

\* C6: a layer whose rendering raised has left the canvas as it was just
\* before the layer was dispatched.
C6_FailedLayerLeavesNoTrace ==
    \A k \in 1 .. Len(history) :
        history[k].outcome = "failed" => history[k].after = history[k].before

\* C7: from allocation to return the card has the canvas dimensions, and so
\* has every card a layer renderer handed back.
C7_CardKeepsCanvasSize ==
    LET Sized(c) == /\ c.w = template.canvas.width
                    /\ c.h = template.canvas.height
                    /\ DOMAIN c.px = Pixels(template.canvas.width, template.canvas.height)
    IN  /\ pc \in {"side", "background", "sort", "loop", "done"} => Sized(card)
        /\ \A k \in 1 .. Len(history) : Sized(history[k].after)

\* a layer's rectangle reaches past the canvas
PastBounds(layer) ==
    \/ layer.x < 0 \/ layer.y < 0
    \/ layer.x + layer.width > CanvasW \/ layer.y + layer.height > CanvasH

C7_Witness ==
    /\ pc = "done"
    /\ Truthy(side_data.backgroundImage)
    /\ card # FlatCard(template)
    /\ \E k \in 1 .. Len(history) :
           /\ PastBounds(history[k].layer)
           /\ history[k].after # history[k].before

\* the side names a background file that is not on disk
BackgroundMissing ==
    /\ side_data.backgroundImage.t = "str"
    /\ Truthy(side_data.backgroundImage)
    /\ ~PathExists(ResolveBackground(side_data.backgroundImage.s))

\* an image layer that takes its bitmap from a src whose file is not on disk
StaticImageMissing(layer) ==
    /\ layer.type = "image"
    /\ ~(layer.field = PyStr(S_photo) /\ photo_image # EmptyCard)
    /\ Truthy(layer.src)
    /\ ~PathExists(ResolveSrc(layer.src.s))

\* C8: a missing background file does not make render raise and leaves the
\* flat fill, so the output is the fill plus the layer paints; an image layer
\* whose file is missing paints nothing and does not fail.
C8_MissingAssetIsSkipped ==
    /\ BackgroundMissing =>
           /\ error # "background"
           /\ pc = "sort" => card = FlatCard(template)
           /\ pc = "done" =>
                  card = PaintLayers(FlatCard(template), sorted_layers, data, photo_image,
                                      ColdFonts)
    /\ \A k \in 1 .. Len(history) :
           StaticImageMissing(history[k].layer) =>
               /\ history[k].after = history[k].before
               /\ history[k].outcome = "rendered"

C8_Witness ==
    /\ pc = "done"
    /\ BackgroundMissing
    /\ \E i, j \in 1 .. Len(history) :
           /\ i < j
           /\ StaticImageMissing(history[i].layer)
           /\ history[j].after # history[j].before

\* ------------------------------------------------------------------------
\* Text data binding
\* ------------------------------------------------------------------------
\* a layer's literal text, empty when the layer has none
LiteralText(layer) == IF layer.text.t = "str" THEN layer.text.s ELSE <<>>

\* the characters of a resolved text; a text that is not a string has none
Characters(text) == IF text.t = "str" THEN text.s ELSE <<>>

\* C9: the resolved text of a text layer is its literal text when the field
\* is "static", whatever the record holds; otherwise the string form of
\* record[field] when the record has the field; otherwise the literal text.
C9_TextBinding ==
    \A k \in 1 .. Len(history) :
        LET layer == history[k].layer
            field == Get(layer.field, PyStr(<<>>))
        IN  layer.type = "text" =>
                Characters(ResolveText(layer, data)) =
                    IF field = PyStr(S_static) THEN LiteralText(layer)
                    ELSE IF field.s \in DOMAIN data THEN Str(data[field.s])
                    ELSE LiteralText(layer)

\* C10: a text layer with no literal text (absent or null) that is static, or
\* whose field the record lacks, leaves the canvas unchanged.
C10_EmptyTextPaintsNothing ==
    \A k \in 1 .. Len(history) :
        LET layer == history[k].layer
            field == Get(layer.field, PyStr(<<>>))
        IN  ( /\ layer.type = "text"
              /\ layer.text.t \in {"absent", "none"}
              /\ (field = PyStr(S_static) \/ field.s \notin DOMAIN data) )
            => history[k].after = history[k].before

\* ------------------------------------------------------------------------
\* QR and photo binding, and the caller's objects
\* ------------------------------------------------------------------------
\* the record has the field a QR layer names
QRFieldPresent(layer) ==
    LET field == Get(layer.field, PyStr(S_id_number)) IN
    field.t = "str" /\ field.s \in DOMAIN data

\* the value the record holds under a QR layer's field
QRValue(layer) == data[Get(layer.field, PyStr(S_id_number)).s]

\* C11: a QR layer encodes record[field] and nothing else: when the record
\* lacks the field, or holds the empty string under it, the layer is skipped
\* and the card stays as it was, whatever literal text the layer carries;
\* otherwise the symbol of str(record[field]) is pasted over the layer's box.
C11_QREncodesRecordField ==
    \A k \in 1 .. Len(history) :
        LET h == history[k] IN
        h.layer.type = "qr_code" =>
            IF ~QRFieldPresent(h.layer) \/ QRValue(h.layer) = PyStr(<<>>)
            THEN h.after = h.before /\ h.outcome = "rendered"
            ELSE h.outcome = "rendered" =>
                     h.after = Paste(h.before,
                                     QRImage(Str(QRValue(h.layer)), h.layer.width,
                                             h.layer.height),
                                     h.layer.x, h.layer.y)

C11_Witness ==
    /\ pc = "done"
    /\ \E k \in 1 .. Len(history) :
           /\ history[k].layer.type = "qr_code"
           /\ Truthy(history[k].layer.text)
           /\ ~QRFieldPresent(history[k].layer)
           /\ history[k].after = history[k].before

\* an image layer bound to the photo
PhotoLayer(layer) == layer.type = "image" /\ layer.field = PyStr(S_photo)

\* what the run has returned, in the shape of RenderCall's result
Returned == [outcome |-> pc, card |-> IF pc = "done" THEN card ELSE EmptyCard]

\* C12: the photo reaches image layers with field "photo" only: when the
\* side has no visible such layer, the call returns what it returns for any
\* other photo; and such a layer, given a photo, paints the photo over its
\* box exactly as if it had no src.
C12_PhotoBoundToPhotoField ==
    /\ (Finished /\ \A i \in 1 .. Len(StoredLayers) :
                        ~(Visible(StoredLayers[i]) /\ PhotoLayer(StoredLayers[i])))
           => \A other \in PhotoPool : RenderCall(template, data, other, side) = Returned
    /\ \A k \in 1 .. Len(history) :
           LET h == history[k]
               inside == Box(h.layer.x + 1, h.layer.y + 1,
                             h.layer.x + h.layer.width - 1, h.layer.y + h.layer.height - 1)
           IN  (PhotoLayer(h.layer) /\ photo_image # EmptyCard) =>
                   /\ h.after = render_image_layer(h.before, [h.layer EXCEPT !.src = Absent],
                                                   photo_image).card
                   /\ \A p \in inside \cap DOMAIN h.after.px :
                          h.after.px[p] \in {photo_image.px[q] : q \in DOMAIN photo_image.px}

C12_Witness ==
    /\ pc = "done"
    /\ photo_image # EmptyCard
    /\ \E k \in 1 .. Len(history) :
           /\ PhotoLayer(history[k].layer)
           /\ Truthy(history[k].layer.src)
           /\ PathExists(ResolveSrc(history[k].layer.src.s))
           /\ history[k].after # history[k].before

\* C13: no step of render changes the caller's template (layer order
\* included), data record or photo bitmap, whether layers fail or not.
C13_InputsUnchanged ==
    [][template' = template /\ data' = data /\ photo_image' = photo_image]_vars

\* a finished call whose stored layer order differs from the paint order and
\* one of whose layers failed
C13_Witness ==
    /\ pc = "done"
    /\ photo_image # EmptyCard
    /\ sorted_layers # StoredLayers
    /\ \E k \in 1 .. Len(history) : history[k].outcome = "failed"

\* ------------------------------------------------------------------------
\* FontManager.get_font called from several threads.  Between the membership
\* test, the load and the store of one call, any step of another call may
\* run.
\* ------------------------------------------------------------------------
Threads == {"t1", "t2"}

S_arial == <<"a", "r", "i", "a", "l">>
S_Comic == <<"C", "o", "m", "i", "c">>

FontFamilyPool == {S_Arial, S_arial, S_Comic}
FontSizePool == {0, 12}
FontWeightPool == {"normal", "400", "bold", "700"}

\* no font file anywhere
NoFontFiles == [f \in {} |-> "ok"]

\* the first copy of arial.ttf is damaged, a second one loads
DamagedCopy ==
    (<<"C:/Windows/Fonts", "arial.ttf">> :> "corrupt")
    @@ (<<"./fonts", "arial.ttf">> :> "ok")

\* every font file there is fails to load
AllDamaged ==
    (<<"C:/Windows/Fonts", "arial.ttf">> :> "corrupt")
    @@ (<<"C:/Windows/Fonts", "arialbd.ttf">> :> "corrupt")
    @@ (<<PlatformFonts, "arial.ttf">> :> "corrupt")
    @@ (<<PlatformFonts, "arialbd.ttf">> :> "corrupt")

\* the regular face is installed, the bold one is not
BoldMissing ==
    (<<"C:/Windows/Fonts", "arial.ttf">> :> "ok")
    @@ (<<PlatformFonts, "arial.ttf">> :> "ok")

FontFilesPool == {NoFontFiles, WindowsFonts, DamagedCopy, AllDamaged, BoldMissing}

\* a thread that has entered get_font(family, size, weight)
Getter(family, size, weight) ==
    [pc |-> "check", family |-> family, size |-> size, weight |-> weight,
     font |-> DefaultFont, hit |-> FALSE, after |-> {}]

\* no render call is running
NoRender ==
    /\ template = NoTemplate
    /\ data = <<>>
    /\ photo_image = EmptyCard
    /\ side = "front"
    /\ pc = "done"
    /\ card = EmptyCard
    /\ side_data = UnsetSide
    /\ sorted_layers = <<>>
    /\ idx = 0
    /\ history = <<>>
    /\ error = "none"

render_vars == <<template, data, photo_image, side,
                 pc, card, side_data, sorted_layers, idx, history, error>>

InitFont ==
    /\ NoRender
    /\ font_files \in FontFilesPool
    /\ font_cache = EmptyCache
    /\ requests = <<>>
    /\ id_templates = <<>>
    /\ pair = <<>>
    /\ paint = <<>>
    /\ getters \in [Threads -> {Getter(f, n, w) : f \in FontFamilyPool, n \in FontSizePool,
                                                  w \in FontWeightPool}]
    /\ calls = <<>>
    /\ lookup = <<>>
    /\ layout = <<>>

\* the key a thread computes for its request
KeyOf(g) == cache_key(g.family, g.size, g.weight)

\* if cache_key in cls._cache: return cls._cache[cache_key]
CacheCheck(t) ==
    /\ getters[t].pc = "check"
    /\ LET g == getters[t]
           seen == {u \in Threads : getters[u].pc = "done"}
       IN  getters' = [getters EXCEPT ![t] =
               IF KeyOf(g) \in DOMAIN font_cache
               THEN [g EXCEPT !.pc = "done", !.font = font_cache[KeyOf(g)],
                              !.hit = TRUE, !.after = seen]
               ELSE [g EXCEPT !.pc = "load", !.after = seen]]
    /\ UNCHANGED <<render_vars, requests, id_templates, pair, paint, lookup, layout, font_files, font_cache, calls>>

\* font = cls._load_font(family, size, weight)
LoadFont(t) ==
    /\ getters[t].pc = "load"
    /\ LET g == getters[t]
           loaded == _load_font(font_files, g.family, g.size, g.weight)
       IN  getters' = [getters EXCEPT ![t] =
               IF loaded.raised THEN [g EXCEPT !.pc = "raised"]
               ELSE [g EXCEPT !.pc = "store", !.font = loaded.font]]
    /\ UNCHANGED <<render_vars, requests, id_templates, pair, paint, lookup, layout, font_files, font_cache, calls>>

\* cls._cache[cache_key] = font; return font
CacheStore(t) ==
    /\ getters[t].pc = "store"
    /\ font_cache' = (KeyOf(getters[t]) :> getters[t].font) @@ font_cache
    /\ getters' = [getters EXCEPT ![t].pc = "done"]
    /\ UNCHANGED <<render_vars, requests, id_templates, pair, paint, lookup, layout, font_files, calls>>

NextFont ==
    \/ \E t \in Threads : CacheCheck(t)
    \/ \E t \in Threads : LoadFont(t)
    \/ \E t \in Threads : CacheStore(t)

SpecFont == InitFont /\ [][NextFont]_vars

\* the font that loading for a request gives on this host
LoadedFor(family, size, weight) == _load_font(font_files, family, size, weight).font

\* C15: however the membership tests, loads and stores of concurrent get_font
\* calls interleave, every call that has returned holds the font loaded for
\* its own (family, size, weight), every cache entry holds the font loaded
\* for its key, and two calls on one key return the same font.
C15_RacesKeepCacheSound ==
    /\ \A t \in Threads :
           getters[t].pc = "done" =>
               getters[t].font = LoadedFor(getters[t].family, getters[t].size,
                                           getters[t].weight)
    /\ \A k \in DOMAIN font_cache : font_cache[k] = LoadedFor(k[1], k[2], k[3])
    /\ \A t, u \in Threads :
           ( /\ getters[t].pc = "done" /\ getters[u].pc = "done"
             /\ Lower(getters[t].family) = Lower(getters[u].family)
             /\ getters[t].size = getters[u].size
             /\ getters[t].weight = getters[u].weight )
           => getters[t].font = getters[u].font

\* two calls on one key both missed, loaded and stored, and a font file was
\* loaded
C15_Witness ==
    \E t, u \in Threads :
        /\ t # u
        /\ getters[t].pc = "done" /\ getters[u].pc = "done"
        /\ ~getters[t].hit /\ ~getters[u].hit
        /\ getters[t].family # getters[u].family
        /\ Lower(getters[t].family) = Lower(getters[u].family)
        /\ getters[t].size = getters[u].size
        /\ getters[t].weight = getters[u].weight
        /\ getters[t].font # DefaultFont

\* two requests of the same size, families equal up to case, weights in the
\* same class
SameWeightClass(g, h) ==
    /\ g.size = h.size
    /\ Lower(g.family) = Lower(h.family)
    /\ is_bold(g.weight) = is_bold(h.weight)

\* two requests of the same size, families equal up to case, the same weight
SameWeight(g, h) ==
    /\ g.size = h.size
    /\ Lower(g.family) = Lower(h.family)
    /\ g.weight = h.weight

\* C16: two requests of the same size, with families equal up to case and
\* weights of the same class (bold or regular), share one cache entry: the
\* request made after the other has returned is a cache hit, and once both
\* have returned the cache holds a single entry.
C16_OneEntryPerWeightClass ==
    \A t, u \in Threads :
        (t # u /\ SameWeightClass(getters[t], getters[u])) =>
            /\ (u \in getters[t].after) => getters[t].hit
            /\ (getters[t].pc = "done" /\ getters[u].pc = "done")
                   => Cardinality(DOMAIN font_cache) = 1

\* C16, amended: two requests of the same size, with families equal up to
\* case and the same weight string, share one cache entry: the request made
\* after the other has returned is a cache hit, and once both have returned
\* the cache holds a single entry.
C16_OneEntryPerWeightString ==
    \A t, u \in Threads :
        (t # u /\ SameWeight(getters[t], getters[u])) =>
            /\ (u \in getters[t].after) => getters[t].hit
            /\ (getters[t].pc = "done" /\ getters[u].pc = "done")
                   => Cardinality(DOMAIN font_cache) = 1

C16_Witness ==
    \E t, u \in Threads :
        /\ t # u
        /\ getters[t].family # getters[u].family
        /\ SameWeight(getters[t], getters[u])
        /\ getters[t].pc = "done"
        /\ u \in getters[t].after
        /\ getters[t].hit
        /\ Cardinality(DOMAIN font_cache) = 1

\* a font the drawing calls can use
Drawable(font) ==
    font = DefaultFont \/ TruetypeLoads(font_files, font.face, font.size)

\* C17: whichever font files are missing or fail to load, no get_font call
\* raises, and the font a call returns can be drawn with.
C17_GetFontNeverFails ==
    \A t \in Threads :
        /\ getters[t].pc # "raised"
        /\ getters[t].pc = "done" => Drawable(getters[t].font)

\* a call has returned the built-in font, asked for at a positive size, on a
\* host where the file mapped to its family is on disk and damaged
C17_Witness ==
    \E t \in Threads :
        /\ getters[t].pc = "done"
        /\ getters[t].size > 0
        /\ getters[t].font = DefaultFont
        /\ LET font_file == FontFile(getters[t].family, getters[t].weight) IN
           /\ font_file # ""
           /\ \E i \in 1 .. Len(FONT_PATHS) :
                  /\ <<FONT_PATHS[i], font_file>> \in DOMAIN font_files
                  /\ font_files[<<FONT_PATHS[i], font_file>>] = "corrupt"

\* ------------------------------------------------------------------------
\* Render calls running side by side.  Each call has its own arguments and
\* locals; the calls meet in FontManager._cache only, where the membership
\* test, the load and the store of a text layer's get_font are steps of
\* their own.
\* ------------------------------------------------------------------------
CallIds == {"a", "b"}

\* text layers that differ in weight only, a shape and a photo layer
SharedLayerPool ==
    { [TextLayer("bold_title", 0, 1, PyInt(3), PyStr(S_static), PyStr(Str_ID))
          EXCEPT !.fontWeight = "bold"],
      [TextLayer("plain_title", 0, 0, PyInt(2), PyStr(S_static), PyStr(Str_ID))
          EXCEPT !.fontFamily = PyStr(S_arial)],
      ImageLayer("portrait", 1, 0, 2, 2, PyInt(1), PyStr(S_photo), Absent, NoBorder) }

SharedTemplatePool ==
    {NoTemplate}
    \cup {Template(DictSide(PyStr(<<"bg.png">>), LayerList(q)), BackSide) :
              q \in SeqsUpTo(SharedLayerPool, MaxLayers)}

\* a render call that has been entered
RenderCallOf(tpl, record, photo, which) ==
    [template |-> tpl, data |-> record, photo_image |-> photo, side |-> which,
     pc |-> "start", card |-> EmptyCard, sorted_layers |-> <<>>, idx |-> 0,
     font |-> DefaultFont, hit |-> FALSE, raced |-> FALSE]

InitShared ==
    /\ NoRender
    /\ font_files = WindowsFonts
    /\ font_cache = EmptyCache
    /\ requests = <<>>
    /\ id_templates = <<>>
    /\ pair = <<>>
    /\ paint = <<>>
    /\ getters = <<>>
    /\ lookup = <<>>
    /\ layout = <<>>
    /\ \E ta, tb \in SharedTemplatePool :
           calls = ("a" :> RenderCallOf(ta, <<>>, PhotoImage, "front"))
                   @@ ("b" :> RenderCallOf(tb, <<>>, EmptyCard, "front"))

\* from the canvas allocation to the sort: the call's own locals only
CallBegin(c) ==
    /\ calls[c].pc = "start"
    /\ LET call == calls[c]
           sd == SideData(call.template, call.side)
           bg == sd.backgroundImage
       IN  calls' = [calls EXCEPT ![c] =
               IF \/ call.template.t = "none"
                  \/ sd.t # "dict"
                  \/ BackgroundRaises(bg)
                  \/ SortRaises(LayersOf(sd))
               THEN [call EXCEPT !.pc = "raised"]
               ELSE [call EXCEPT !.pc = "loop",
                                 !.card = IF Truthy(bg)
                                          THEN LoadBackground(FlatCard(call.template), bg)
                                          ELSE FlatCard(call.template),
                                 !.sorted_layers = SortByZ(LayersOf(sd)),
                                 !.idx = 1]]
    /\ UNCHANGED <<render_vars, requests, id_templates, pair, paint, lookup, layout, font_files, font_cache, getters>>

\* the layer the call's loop is at
CurrentLayer(call) == call.sorted_layers[call.idx]

\* the layer's request to get_font
LayerKey(layer) == cache_key(FontFamily(layer).s, FontSize(layer).n, FontWeight(layer))

\* one pass of the loop that does not wait for a font: a hidden layer, a layer
\* that never asks for one, or a text layer whose font is in the cache
CallLayer(c) ==
    /\ calls[c].pc = "loop"
    /\ calls[c].idx <= Len(calls[c].sorted_layers)
    /\ LET call == calls[c]
           layer == CurrentLayer(call)
           asks == Visible(layer) /\ AsksFont(layer, call.data)
       IN  /\ asks => LayerKey(layer) \in DOMAIN font_cache
           /\ calls' = [calls EXCEPT ![c] =
                  [call EXCEPT !.idx = call.idx + 1,
                               !.hit = call.hit \/ asks,
                               !.card = IF Visible(layer)
                                        THEN RenderLayer(call.card, layer, call.data,
                                                         call.photo_image,
                                                         Fonts(font_files, font_cache)).card
                                        ELSE call.card]]
    /\ UNCHANGED <<render_vars, requests, id_templates, pair, paint, lookup, layout, font_files, font_cache, getters>>

\* a text layer's get_font misses and loads
CallFontLoad(c) ==
    /\ calls[c].pc = "loop"
    /\ calls[c].idx <= Len(calls[c].sorted_layers)
    /\ LET call == calls[c]
           layer == CurrentLayer(call)
       IN  /\ Visible(layer) /\ AsksFont(layer, call.data)
           /\ LayerKey(layer) \notin DOMAIN font_cache
           /\ calls' = [calls EXCEPT ![c] =
                  [call EXCEPT !.pc = "store",
                               !.font = _load_font(font_files, FontFamily(layer).s,
                                                   FontSize(layer).n,
                                                   FontWeight(layer)).font]]
    /\ UNCHANGED <<render_vars, requests, id_templates, pair, paint, lookup, layout, font_files, font_cache, getters>>

\* get_font stores and returns the loaded font, and the layer is drawn
CallFontStore(c) ==
    /\ calls[c].pc = "store"
    /\ LET call == calls[c]
           layer == CurrentLayer(call)
           own == (LayerKey(layer) :> call.font)
       IN  /\ font_cache' = own @@ font_cache
           /\ calls' = [calls EXCEPT ![c] =
                  [call EXCEPT !.pc = "loop",
                               !.idx = call.idx + 1,
                               !.raced = call.raced \/ LayerKey(layer) \in DOMAIN font_cache,
                               !.card = RenderLayer(call.card, layer, call.data,
                                                    call.photo_image,
                                                    Fonts(font_files, own)).card]]
    /\ UNCHANGED <<render_vars, requests, id_templates, pair, paint, lookup, layout, font_files, getters>>

\* return card
CallReturn(c) ==
    /\ calls[c].pc = "loop"
    /\ calls[c].idx > Len(calls[c].sorted_layers)
    /\ calls' = [calls EXCEPT ![c].pc = "done"]
    /\ UNCHANGED <<render_vars, requests, id_templates, pair, paint, lookup, layout, font_files, font_cache, getters>>

NextShared ==
    \/ \E c \in CallIds : CallBegin(c)
    \/ \E c \in CallIds : CallLayer(c)
    \/ \E c \in CallIds : CallFontLoad(c)
    \/ \E c \in CallIds : CallFontStore(c)
    \/ \E c \in CallIds : CallReturn(c)

SpecShared == InitShared /\ [][NextShared]_vars

\* C14: however the steps of concurrent render calls interleave, and whatever
\* earlier calls left in the font cache, a call that has finished has the
\* outcome and the bitmap of the same call run alone in a fresh process.
C14_CallsAreIndependent ==
    \A c \in CallIds :
        calls[c].pc \in {"done", "raised"} =>
            RenderCall(calls[c].template, calls[c].data, calls[c].photo_image,
                       calls[c].side)
                = [outcome |-> calls[c].pc,
                   card |-> IF calls[c].pc = "done" THEN calls[c].card ELSE EmptyCard]

\* both calls have returned different bitmaps; one drew with a font the other
\* had cached, and two loads of one key raced
C14_Witness ==
    /\ \A c \in CallIds : calls[c].pc = "done"
    /\ calls["a"].card # calls["b"].card
    /\ \E c \in CallIds : calls[c].hit
    /\ \E c \in CallIds : calls[c].raced

\* ------------------------------------------------------------------------
\* Asset references: one reference resolved as a side's backgroundImage and
\* as an image layer's src
\* ------------------------------------------------------------------------
MaxTail == 2

\* how a reference may begin: relative, with a slash, with the API prefix
\* of uploaded backgrounds, as a URL
RefHeads == {<<>>, <<"">>, ApiPrefix, <<"http:", "", "host">>}

RefSegments == {"teacher", "uploads", "bg.png", "gone.png"}

RefPool ==
    {head \o tail : head \in RefHeads,
                    tail \in SeqsUpTo(RefSegments, MaxTail) \ {<<>>}}

Unresolved == [done |-> FALSE, path |-> <<>>, outcome |-> "none"]

InitPaths ==
    /\ NoRender
    /\ font_files = WindowsFonts
    /\ font_cache = EmptyCache
    /\ requests = <<>>
    /\ id_templates = <<>>
    /\ pair = <<>>
    /\ paint = <<>>
    /\ getters = <<>>
    /\ calls = <<>>
    /\ layout = <<>>
    /\ \E ref \in RefPool :
           lookup = [ref |-> ref, bg |-> Unresolved, img |-> Unresolved]

\* the background step of render on a flat card, with the reference as the
\* side's backgroundImage
ResolveAsBackground ==
    /\ ~lookup.bg.done
    /\ LET bg_image == PyStr(lookup.ref)
           flat == NewImage(CanvasW, CanvasH, "white")
       IN  lookup' = [lookup EXCEPT !.bg =
               [done |-> TRUE,
                path |-> ResolveBackground(lookup.ref),
                outcome |-> IF BackgroundRaises(bg_image) THEN "error"
                            ELSE IF LoadBackground(flat, bg_image) = flat THEN "skipped"
                            ELSE "pasted"]]
    /\ UNCHANGED <<render_vars, requests, id_templates, pair, paint, font_files, font_cache, getters, calls, layout>>

\* render_image_layer on a flat card, with the reference as the layer's src
ResolveAsSrc ==
    /\ ~lookup.img.done
    /\ LET layer == ImageLayer("static", 0, 0, CanvasW, CanvasH, Absent, Absent,
                               PyStr(lookup.ref), NoBorder)
           flat == NewImage(CanvasW, CanvasH, "white")
           result == render_image_layer(flat, layer, EmptyCard)
       IN  lookup' = [lookup EXCEPT !.img =
               [done |-> TRUE,
                path |-> ResolveSrc(lookup.ref),
                outcome |-> IF result.raised THEN "error"
                            ELSE IF result.card = flat THEN "skipped"
                            ELSE "pasted"]]
    /\ UNCHANGED <<render_vars, requests, id_templates, pair, paint, font_files, font_cache, getters, calls, layout>>

NextPaths ==
    \/ ResolveAsBackground
    \/ ResolveAsSrc

SpecPaths == InitPaths /\ [][NextPaths]_vars

\* the reference begins with the API prefix of uploaded backgrounds
HasApiPrefix(ref) ==
    Len(ref) > Len(ApiPrefix) /\ \A i \in 1 .. Len(ApiPrefix) : ref[i] = ApiPrefix[i]

\* what follows the API prefix
AfterApiPrefix(ref) == [i \in 1 .. (Len(ref) - Len(ApiPrefix)) |-> ref[i + Len(ApiPrefix)]]

\* the reference begins with a slash
LeadingSlash(ref) == ref[1] = ""

\* C18: a background reference is resolved by one of three rules, and every
\* reference falls under one: after the API prefix, <category>/<filename>
\* under data/templates; with any other leading slash, the final file name
\* alone under data/templates; otherwise the whole reference under the
\* template folder.  A reference whose file is not on disk is skipped and
\* the step never ends in an error.
C18_BackgroundResolution ==
    lookup.bg.done =>
        /\ lookup.bg.path =
               IF HasApiPrefix(lookup.ref)
               THEN <<"data", "templates">> \o AfterApiPrefix(lookup.ref)
               ELSE IF LeadingSlash(lookup.ref)
                    THEN <<"data", "templates", lookup.ref[Len(lookup.ref)]>>
                    ELSE TemplateFolder \o lookup.ref
        /\ lookup.bg.outcome # "error"
        /\ lookup.bg.path \notin DOMAIN FileSystem => lookup.bg.outcome = "skipped"

\* a leading-slash reference with directories whose file name alone is found
C18_Witness ==
    /\ lookup.bg.done
    /\ LeadingSlash(lookup.ref)
    /\ ~HasApiPrefix(lookup.ref)
    /\ Len(lookup.ref) > 2
    /\ lookup.bg.outcome = "pasted"

NamesUpload(ref) ==
    /\ \E i \in 1 .. Len(ref) : ref[i] \in {"http:", "https:"}
    /\ \E i \in 1 .. Len(ref) : ref[i] = "uploads"

\* the reference is an upload URL: it names http and has an uploads directory
UploadUrl(ref) ==
    NamesUpload(ref) /\ \E i \in 2 .. (Len(ref) - 1) : ref[i] = "uploads"

TextLayoutPool ==
    {[TextLayer("label", x, y, PyInt(1), PyStr(S_static), PyStr(Str_ID))
         EXCEPT !.width = w, !.textAlign = align, !.rotation = turn, !.fontWeight = weight] :
         x \in {0 - Padding, 0, 1}, y \in {0 - Padding, 0}, w \in {2, 4},
         align \in {NoAlign, "center", "right"},
         turn \in {Absent, PyInt(0), PyInt(90), PyInt(180), PyInt(360)},
         weight \in {NoWeight, "bold"}}

InitText ==
    /\ NoRender
    /\ font_files = WindowsFonts
    /\ font_cache = EmptyCache
    /\ requests = <<>>
    /\ id_templates = <<>>
    /\ pair = <<>>
    /\ paint = <<>>
    /\ getters = <<>>
    /\ calls = <<>>
    /\ lookup = <<>>
    /\ \E layer \in TextLayoutPool :
           layout = [layer |-> layer, pc |-> "given", card |-> EmptyCard, origins |-> <<>>,
                     lines |-> <<>>, drawn_at |-> <<>>]

\* the flat card a text layer is drawn on
FlatCanvas == NewImage(CanvasW, CanvasH, "white")

\* the characters drawn for a layer with a literal text
ShownText(layer) == ResolveText(layer, <<>>).s

\* the font get_font gives the layer in a fresh process
LayerFont(layer) ==
    get_font(EmptyCache, font_files, FontFamily(layer).s, FontSize(layer).n,
             FontWeight(layer)).font

\* where on the card render_text_layer draws the top-left of each line
LineOrigins(layer) == CanvasOrigins(TextGeometry(layer, ShownText(layer), LayerFont(layer)))

\* the (line_x, line_y) each line is drawn at: on the card, or in the
\* buffer of a rotated layer
DrawnAt(layer) == TextGeometry(layer, ShownText(layer), LayerFont(layer)).origins

\* render_text_layer(card, layer, data, canvas_width)
DrawText ==
    /\ layout.pc = "given"
    /\ layout' = [layout EXCEPT
           !.pc = "drawn",
           !.card = render_text_layer(FlatCanvas, layout.layer, <<>>, ColdFonts).card,
           !.origins = LineOrigins(layout.layer),
           !.lines = TextLines(layout.layer, ShownText(layout.layer)),
           !.drawn_at = DrawnAt(layout.layer)]
    /\ font_cache' = LayerCache(ColdFonts, layout.layer, <<>>)
    /\ UNCHANGED <<render_vars, requests, id_templates, pair, paint, font_files, getters, calls, lookup>>

NextText == DrawText

SpecText == InitText /\ [][NextText]_vars

\* C20: a text layer turned by 360 degrees is drawn where the same layer is
\* drawn with rotation 0: the top-left of each line lands on the same card
\* position and the two cards are equal.
C20_FullTurnKeepsPosition ==
    (layout.pc = "drawn" /\ Rotation(layout.layer) = PyInt(360)) =>
        LET still == [layout.layer EXCEPT !.rotation = PyInt(0)] IN
        /\ layout.origins = LineOrigins(still)
        /\ layout.card = render_text_layer(FlatCanvas, still, <<>>, ColdFonts).card

\* ------------------------------------------------------------------------
\* Object fit: one image layer bound to the photo, painted on a flat card
\* ------------------------------------------------------------------------
\* the colour of a source bitmap at each of its pixels, all different
Swatch ==
    <<<<"s00", "s01", "s02">>, <<"s10", "s11", "s12">>, <<"s20", "s21", "s22">>>>

SourceSides == 1 .. Len(Swatch)

\* opaque photos of every aspect ratio from 1:3 to 3:1
SourcePool ==
    {[w |-> w, h |-> h, px |-> [p \in Pixels(w, h) |-> Swatch[p[1] + 1][p[2] + 1]]] :
        w \in SourceSides, h \in SourceSides}

FitPool == {NoFit, "cover", "contain", "fill", "none"}

PhotoLayerPool ==
    {[ImageLayer("portrait", x, y, w, h, PyInt(1), PyStr(S_photo), Absent, NoBorder)
         EXCEPT !.objectFit = fit] :
         x \in {0 - 1, 0, 1}, y \in {0, 1}, w \in SourceSides, h \in SourceSides,
         fit \in FitPool}

InitFit ==
    /\ NoRender
    /\ font_files = WindowsFonts
    /\ font_cache = EmptyCache
    /\ requests = <<>>
    /\ id_templates = <<>>
    /\ pair = <<>>
    /\ getters = <<>>
    /\ calls = <<>>
    /\ lookup = <<>>
    /\ layout = <<>>
    /\ \E layer \in PhotoLayerPool, source \in SourcePool :
           paint = [layer |-> layer, source |-> source, pc |-> "given",
                    fitted |-> EmptyCard, card |-> EmptyCard]

\* render_image_layer(card, layer, data, photo_image, base_path)
PaintImage ==
    /\ paint.pc = "given"
    /\ paint' = [paint EXCEPT
           !.pc = "painted",
           !.fitted = FitImage(paint.source, ObjectFit(paint.layer),
                               paint.layer.width, paint.layer.height),
           !.card = render_image_layer(FlatCanvas, paint.layer, paint.source).card]
    /\ UNCHANGED <<render_vars, requests, id_templates, pair, font_files, font_cache, getters, calls, lookup, layout>>

NextFit == PaintImage

SpecFit == InitFit /\ [][NextFit]_vars

\* the part of the source that stays visible when it is scaled, its aspect
\* ratio kept, until it covers a w x h box and the overflow is cropped
\* evenly on both sides: the full extent along one axis, a centred band
\* along the other
CoverWindow(img, w, h) ==
    LET Ceil(a, b) == (a + b - 1) \div b
        band_w == IF img.w * h >= w * img.h THEN Max(Ceil(w * img.h, h), 1) ELSE img.w
        band_h == IF img.w * h >= w * img.h THEN img.h ELSE Max(Ceil(h * img.w, w), 1)
        Off(a) == IF a >= 0 THEN a ELSE 0 - a
    IN  {q \in DOMAIN img.px : /\ Off(2 * q[1] + 1 - img.w) <= band_w
                               /\ Off(2 * q[2] + 1 - img.h) <= band_h}

\* the pixels of the card inside the layer's box
BoxOnCard(layer) ==
    {p \in Pixels(CanvasW, CanvasH) :
        /\ p[1] - layer.x \in 0 .. (layer.width - 1)
        /\ p[2] - layer.y \in 0 .. (layer.height - 1)}

\* C21: object-fit cover of an opaque source into a box of positive size
\* gives a bitmap of exactly the box's size, every pixel of which comes from
\* the centred window of the source that has the box's aspect ratio; after
\* the paste every card pixel inside the box shows the fitted bitmap, none
\* is transparent and none shows the card beneath.
C21_CoverFillsBox ==
    (paint.pc = "painted" /\ ObjectFit(paint.layer) = "cover") =>
        LET layer == paint.layer
            fitted == paint.fitted
        IN  /\ fitted.w = layer.width
            /\ fitted.h = layer.height
            /\ DOMAIN fitted.px = Pixels(layer.width, layer.height)
            /\ \A p \in DOMAIN fitted.px :
                   \E q \in CoverWindow(paint.source, layer.width, layer.height) :
                       fitted.px[p] = paint.source.px[q]
            /\ \A p \in BoxOnCard(layer) :
                   /\ paint.card.px[p] # Transparent
                   /\ paint.card.px[p] # FlatCanvas.px[p]
                   /\ paint.card.px[p] = fitted.px[<<p[1] - layer.x, p[2] - layer.y>>]

\* a wide photo covered into a tall box that hangs over the card's left edge
C21_Witness ==
    /\ paint.pc = "painted"
    /\ ObjectFit(paint.layer) = "cover"
    /\ paint.source.w > paint.source.h
    /\ paint.layer.width < paint.layer.height
    /\ paint.layer.x < 0
    /\ BoxOnCard(paint.layer) # {}

\* ------------------------------------------------------------------------
\* render_both_sides: render is called for the front, then for the back, in
\* one process, so the second call finds the font cache the first one left
\* ------------------------------------------------------------------------
\* sides of a template: with and without a background, with a bold text, a
\* photo, a hidden layer, and one whose sort raises
BothSidePool ==
    { DictSide(Absent, NoLayers),
      DictSide(PyStr(<<"bg.png">>),
               LayerList(<<[TextLayer("bold_title", 0, 1, PyInt(3), PyStr(S_static),
                                      PyStr(Str_ID)) EXCEPT !.fontWeight = "bold"]>>)),
      DictSide(Absent,
               LayerList(<<[TextLayer("bold_name", 0, 0, PyInt(2), PyStr(S_static),
                                      PyStr(Str_ID)) EXCEPT !.fontWeight = "bold"],
                           [ImageLayer("portrait", 1, 0, 2, 2, PyInt(1), PyStr(S_photo),
                                       Absent, NoBorder) EXCEPT !.objectFit = "contain"]>>)),
      DictSide(PyStr(<<"logo.png">>),
               LayerList(<<[ShapeLayer("hidden", 0, 0, 2, 1, PyInt(3), "green")
                               EXCEPT !.visible = PyBool(FALSE)],
                           ShapeLayer("red", 0, 0, 1, 1, PyInt(2), "red")>>)),
      DictSide(Absent,
               LayerList(<<ShapeLayer("null_z", 0, 1, 0, 0, PyNone, "grey"),
                           ShapeLayer("blue", 1, 0, 3, 3, PyInt(1), "blue")>>)),
      NullSide }

InitBoth ==
    /\ template \in {Template(f, b) : f \in BothSidePool, b \in BothSidePool}
    /\ data = <<>>
    /\ photo_image \in PhotoPool
    /\ side = "front"
    /\ pc = "canvas"
    /\ card = EmptyCard
    /\ side_data = UnsetSide
    /\ sorted_layers = <<>>
    /\ idx = 0
    /\ history = <<>>
    /\ error = "none"
    /\ font_files = WindowsFonts
    /\ font_cache = EmptyCache
    /\ requests = <<>>
    /\ id_templates = <<>>
    /\ paint = <<>>
    /\ getters = <<>>
    /\ calls = <<>>
    /\ lookup = <<>>
    /\ layout = <<>>
    /\ pair = [pc |-> "front", front |-> EmptyCard, back |-> EmptyCard]

both_elsewhere == <<font_files, font_cache, getters, calls, lookup, layout, paint, requests, id_templates>>

\* FrontReturned with the second call made for the front again
FrontReturned_SameSide ==
    /\ pair.pc = "front"
    /\ pc = "done"
    /\ pair' = [pair EXCEPT !.pc = "back", !.front = card]
    /\ side' = "front"
    /\ pc' = "canvas"
    /\ card' = EmptyCard
    /\ side_data' = UnsetSide
    /\ sorted_layers' = <<>>
    /\ idx' = 0
    /\ history' = <<>>
    /\ UNCHANGED <<both_elsewhere, template, data, photo_image, error>>

\* front = self.render(template, data, photo_image, 'front') has returned;
\* render is entered for the back with the same arguments
FrontReturned ==
    /\ pair.pc = "front"
    /\ pc = "done"
    /\ pair' = [pair EXCEPT !.pc = "back", !.front = card]
    /\ side' = "back"
    /\ pc' = "canvas"
    /\ card' = EmptyCard
    /\ side_data' = UnsetSide
    /\ sorted_layers' = <<>>
    /\ idx' = 0
    /\ history' = <<>>
    /\ UNCHANGED <<both_elsewhere, template, data, photo_image, error>>

\* back = self.render(...) has returned; return front, back
BackReturned ==
    /\ pair.pc = "back"
    /\ pc = "done"
    /\ pair' = [pair EXCEPT !.pc = "done", !.back = card]
    /\ UNCHANGED <<both_elsewhere, render_vars>>

\* an exception of either call leaves render_both_sides
BothRaised ==
    /\ pair.pc \in {"front", "back"}
    /\ pc = "raised"
    /\ pair' = [pair EXCEPT !.pc = "raised"]
    /\ UNCHANGED <<both_elsewhere, render_vars>>

NextBoth ==
    \/ AllocateCanvas
    \/ GetSide
    \/ Background
    \/ SortLayers
    \/ SkipHidden
    \/ DispatchLayer
    \/ Return
    \/ FrontReturned
    \/ BackReturned
    \/ BothRaised

SpecBoth == InitBoth /\ [][NextBoth]_vars

\* C22: render_both_sides returns (render(front), render(back)): the first
\* bitmap is what render gives for the front in a fresh process whatever the
\* back side holds, the second is what render gives for the back in a fresh
\* process whatever the front side holds; and it raises only when one of the
\* two calls raises on its own.
C22_SidesAreIndependent ==
    /\ pair.pc = "done" =>
           \A other \in BothSidePool :
               LET alone == RenderCall(Template(template.front, other), data,
                                       photo_image, "front")
                   after == RenderCall(Template(other, template.back), data,
                                       photo_image, "back")
               IN  /\ alone.outcome = "done" /\ pair.front = alone.card
                   /\ after.outcome = "done" /\ pair.back = after.card
    /\ pair.pc = "raised" =>
           \/ RenderCall(template, data, photo_image, "front").outcome = "raised"
           \/ RenderCall(template, data, photo_image, "back").outcome = "raised"

\* both sides returned, the front having loaded the font the back draws
\* with, and the two bitmaps differ
C22_Witness ==
    /\ pair.pc = "done"
    /\ pair.front # pair.back
    /\ template.front # template.back
    /\ \E k \in DOMAIN font_cache :
           /\ \E i \in 1 .. Len(LayersOf(template.front)) :
                  LET layer == LayersOf(template.front)[i] IN
                  layer.type = "text" /\ cache_key(FontFamily(layer).s, FontSize(layer).n,
                                                   FontWeight(layer)) = k
           /\ \E i \in 1 .. Len(LayersOf(template.back)) :
                  LET layer == LayersOf(template.back)[i] IN
                  layer.type = "text" /\ cache_key(FontFamily(layer).s, FontSize(layer).n,
                                                   FontWeight(layer)) = k

\* ------------------------------------------------------------------------
\* Stacked layers: render on sides whose layers overlap, share zIndex values
\* and carry the editor's opacity and locked values
\* ------------------------------------------------------------------------
StackLayerPool ==
    { ShapeLayer("red", 0, 0, 1, 1, Absent, "red"),
      ShapeLayer("blue", 0, 0, 2, 1, PyInt(0), "blue"),
      [ShapeLayer("blue", 0, 0, 2, 1, PyInt(0), "blue")
          EXCEPT !.opacity = PyInt(0), !.locked = PyBool(TRUE)],
      ShapeLayer("green", 1, 0, 1, 1, PyInt(1), "green"),
      [ShapeLayer("grey", 0, 0, 2, 2, PyInt(1), "grey") EXCEPT !.opacity = PyInt(50)],
      [ShapeLayer("hidden", 0, 0, 2, 1, PyInt(0), "black")
          EXCEPT !.visible = PyBool(FALSE), !.locked = PyBool(FALSE)],
      [TextLayer("title", 0, 0, Absent, PyStr(S_static), PyStr(Str_ID))
          EXCEPT !.opacity = PyInt(0)],
      [QRCodeLayer("qr", 1, 0, 2, 2, PyInt(1), PyStr(S_id_number))
          EXCEPT !.locked = PyBool(TRUE)] }

StackTemplatePool ==
    {Template(DictSide(bg, LayerList(q)), BackSide) :
         bg \in {Absent, PyStr(<<"bg.png">>)},
         q \in SeqsUpTo(StackLayerPool, MaxLayers)}

InitStack ==
    /\ template \in StackTemplatePool
    /\ data = (S_id_number :> PyInt(7))
    /\ photo_image = EmptyCard
    /\ side = "front"
    /\ pc = "canvas"
    /\ card = EmptyCard
    /\ side_data = UnsetSide
    /\ sorted_layers = <<>>
    /\ idx = 0
    /\ history = <<>>
    /\ error = "none"
    /\ font_files = WindowsFonts
    /\ font_cache = EmptyCache
    /\ requests = <<>>
    /\ id_templates = <<>>
    /\ paint = <<>>
    /\ pair = <<>>
    /\ getters = <<>>
    /\ calls = <<>>
    /\ lookup = <<>>
    /\ layout = <<>>

NextStack ==
    \/ AllocateCanvas
    \/ GetSide
    \/ Background
    \/ SortLayers
    \/ SkipHidden
    \/ DispatchLayer
    \/ Return

SpecStack == InitStack /\ [][NextStack]_vars

\* the layers of a list whose sort key is z, in the list's order
WithKey(layers, z) ==
    LET HasKey(layer) == ZKey(layer).n = z IN SelectSeq(layers, HasKey)

\* the opacity and locked values an editor can store on a layer
OpacityPool == {Absent, PyInt(0), PyInt(50), PyInt(100)}
LockedPool == {Absent, PyBool(TRUE), PyBool(FALSE)}

\* the template with every layer's opacity and locked replaced
Restyled(tpl, opacity, locked) ==
    LET Set(layer) == [layer EXCEPT !.opacity = opacity, !.locked = locked]
        Side(sd) == [sd EXCEPT !.layers.v = [i \in DOMAIN @ |-> Set(@[i])]]
    IN  [tpl EXCEPT !.front = Side(@), !.back = Side(@)]

\* C30: opacity and locked have no effect on rendering: once render has
\* finished, its outcome and bitmap are those of the template whose layers
\* all carry any other opacity (0 included, or none) and locked value, so
\* templates differing only in these fields render identically.
C30_OpacityAndLockedIgnored ==
    Finished =>
        \A opacity \in OpacityPool, locked \in LockedPool :
            LET r == RenderCall(Restyled(template, opacity, locked), data, photo_image, side)
            IN  /\ r.outcome = pc
                /\ pc = "done" => r.card = card

\* a returned call whose card shows the ink of a visible, locked layer of
\* opacity 0
C30_Witness ==
    /\ pc = "done"
    /\ \E j \in 1 .. Len(StoredLayers) :
           /\ Visible(StoredLayers[j])
           /\ StoredLayers[j].opacity = PyInt(0)
           /\ StoredLayers[j].locked = PyBool(TRUE)
           /\ \E p \in Ink(StoredLayers[j]) : card.px[p] = Inked(StoredLayers[j]).px[p]

\* C23: the sort is stable: layers of equal zIndex (a missing zIndex counts
\* as 0) keep their storage order in the paint order, so once render has
\* returned, a pixel painted by several visible layers holds the colour of
\* the one that is last in storage order among those of the highest zIndex.
C23_SortIsStable ==
    /\ pc \in {"loop", "done"} =>
           \A z \in {ZKey(StoredLayers[i]).n : i \in 1 .. Len(StoredLayers)} :
               WithKey(sorted_layers, z) = WithKey(StoredLayers, z)
    /\ pc = "done" =>
           \A j \in 1 .. Len(StoredLayers) : \A p \in Ink(StoredLayers[j]) :
               ( /\ Visible(StoredLayers[j])
                 /\ \A i \in 1 .. Len(StoredLayers) :
                        (i # j /\ Visible(StoredLayers[i]) /\ p \in Ink(StoredLayers[i]))
                            => \/ ZKey(StoredLayers[i]).n < ZKey(StoredLayers[j]).n
                               \/ /\ ZKey(StoredLayers[i]).n = ZKey(StoredLayers[j]).n
                                  /\ i < j )
               => card.px[p] = Inked(StoredLayers[j]).px[p]

\* a returned call with two visible layers, one without zIndex and one with
\* zIndex 0, that paint a common pixel in different colours
C23_Witness ==
    /\ pc = "done"
    /\ \E i, j \in 1 .. Len(StoredLayers) :
           LET a == StoredLayers[i]
               b == StoredLayers[j]
           IN  /\ i < j
               /\ Visible(a) /\ Visible(b)
               /\ a.zIndex = PyInt(0) /\ b.zIndex = Absent
               /\ \E p \in Ink(a) \cap Ink(b) :
                      /\ Inked(a).px[p] # Inked(b).px[p]
                      /\ card.px[p] = Inked(b).px[p]

\* ------------------------------------------------------------------------
\* Lines of text: one text layer, wrapped or not, aligned, turned or not
\* ------------------------------------------------------------------------
LinesTextPool ==
    { <<"A", "B", " ", "C", "D">>,
      <<"A", "B", " ", "C", "D", "E", "F", "G">>,
      <<" ", "A", " ", " ", "B">>,
      <<" ", " ">> }

LinesLayerPool ==
    {[TextLayer("label", 1, 0, PyInt(1), PyStr(S_static), PyStr(text))
         EXCEPT !.width = w, !.wordWrap = wrap, !.fontSize = size, !.lineHeight = tenths,
                !.textAlign = align, !.rotation = turn] :
         text \in LinesTextPool,
         w \in {0, 3, 6, 12},
         wrap \in {Absent, PyBool(TRUE), PyBool(FALSE)},
         size \in {PyInt(5), PyInt(10)},
         tenths \in {Absent, PyInt(15)},
         align \in {NoAlign, "center", "right", "justify"},
         turn \in {Absent, PyInt(90), PyInt(180)}}

InitLines ==
    /\ NoRender
    /\ font_files = WindowsFonts
    /\ font_cache = EmptyCache
    /\ requests = <<>>
    /\ id_templates = <<>>
    /\ pair = <<>>
    /\ paint = <<>>
    /\ getters = <<>>
    /\ calls = <<>>
    /\ lookup = <<>>
    /\ \E layer \in LinesLayerPool :
           layout = [layer |-> layer, pc |-> "given", card |-> EmptyCard, origins |-> <<>>,
                     lines |-> <<>>, drawn_at |-> <<>>]

NextLines == DrawText

SpecLines == InitLines /\ [][NextLines]_vars

\* the horizontal offset of a line in a box: 0 for left and justify, half
\* the free width (to the whole pixel below) for center, the free width for
\* right
BoxOffset(layer, line) ==
    LET free == layer.width - LineWidth(line, LayerFont(layer)) IN
    CASE TextAlign(layer) = "center" -> free \div 2
      [] TextAlign(layer) = "right" -> free
      [] OTHER -> 0

Unrotated == layout.pc = "drawn" /\ Rotation(layout.layer) = PyInt(0)

\* C24 as stated: with rotation 0, line i is drawn at (x + offset,
\* y + i * fontSize * lineHeight), to the whole pixel below; the product is
\* taken exactly (lineHeight is held in tenths).
C24_UnrotatedPlacement ==
    Unrotated =>
        /\ Len(layout.drawn_at) = Len(layout.lines)
        /\ \A i \in 1 .. Len(layout.lines) :
               layout.drawn_at[i] =
                   <<layout.layer.x + BoxOffset(layout.layer, layout.lines[i]),
                     layout.layer.y + ((i - 1) * FontSize(layout.layer).n
                                           * LineHeight(layout.layer).n) \div 10>>

\* C24: with rotation 0, line i is drawn at (x + offset, y + i * lineSpacing)
\* where lineSpacing is fontSize * lineHeight cut to whole pixels before it
\* is multiplied by i, and offset is 0, half the free width (to the whole
\* pixel below) or the free width, by the line's own measured width.
C24_UnrotatedPlacementWholePixels ==
    Unrotated =>
        /\ Len(layout.drawn_at) = Len(layout.lines)
        /\ \A i \in 1 .. Len(layout.lines) :
               layout.drawn_at[i] =
                   <<layout.layer.x + BoxOffset(layout.layer, layout.lines[i]),
                     layout.layer.y + (i - 1) * ((FontSize(layout.layer).n
                                                    * LineHeight(layout.layer).n) \div 10)>>

\* an unrotated, centred layer of three lines or more whose fontSize *
\* lineHeight is not a whole number
C24_Witness ==
    /\ Unrotated
    /\ Len(layout.lines) >= 3
    /\ TextAlign(layout.layer) = "center"
    /\ (FontSize(layout.layer).n * LineHeight(layout.layer).n) % 10 # 0
    /\ \E i \in 1 .. Len(layout.lines) : BoxOffset(layout.layer, layout.lines[i]) # 0

\* C25: a rotated layer's lines are drawn in the buffer, measured from its
\* padding margin, where the same layer without rotation draws them,
\* measured from (x, y).
C25_RotatedLayoutMatchesUnrotated ==
    (layout.pc = "drawn" /\ Rotation(layout.layer) # PyInt(0)) =>
        LET still == [layout.layer EXCEPT !.rotation = PyInt(0)] IN
        /\ Len(layout.drawn_at) = Len(DrawnAt(still))
        /\ \A i \in 1 .. Len(layout.drawn_at) :
               /\ layout.drawn_at[i][1] - Padding = DrawnAt(still)[i][1] - still.x
               /\ layout.drawn_at[i][2] - Padding = DrawnAt(still)[i][2] - still.y

\* the characters of a text that are not blanks, in order
Inked_Characters(text) ==
    LET NotBlank(c) == c # " " IN SelectSeq(text, NotBlank)

\* the length of the first word of a line
FirstWordLen(line) ==
    LET rest == IF line # <<>> /\ IsBlank(Head(SplitChunks(line)))
                THEN Tail(SplitChunks(line)) ELSE SplitChunks(line)
    IN  IF rest = <<>> THEN 0 ELSE Len(Head(rest))

\* words separated by one blank, none before the first or after the last
SingleSpaced(text) ==
    /\ text # <<>>
    /\ text[1] # " " /\ text[Len(text)] # " "
    /\ \A i \in 1 .. (Len(text) - 1) : ~(text[i] = " " /\ text[i + 1] = " ")

\* C26: without wordWrap, or with a width of 0 or less, the text is one
\* line; with wordWrap and a positive width no line is longer than
\* max(1, floor(width / (fontSize * 0.6))) characters, the characters of the
\* words come in their original order with none lost, and the wrap is
\* greedy: the first word of a line would not have fitted on the line before.
C26_LineSplitting ==
    layout.pc = "drawn" =>
        LET layer == layout.layer
            text == ShownText(layer)
            column == Max(1, (layer.width * 10) \div (FontSize(layer).n * 6))
        IN  IF Truthy(layer.wordWrap) /\ layer.width > 0
            THEN /\ \A i \in 1 .. Len(layout.lines) :
                        Len(layout.lines[i]) \in 1 .. column
                 /\ Inked_Characters(JoinChunks(layout.lines)) = Inked_Characters(text)
                 /\ SingleSpaced(text) =>
                        \A i \in 1 .. (Len(layout.lines) - 1) :
                            Len(layout.lines[i]) + 1 + FirstWordLen(layout.lines[i + 1])
                                > column
            ELSE layout.lines = <<text>>

\* a wrapped layer with a word longer than the column and more lines than
\* words, and the lines are drawn
C26_Witness ==
    /\ layout.pc = "drawn"
    /\ Truthy(layout.layer.wordWrap) /\ layout.layer.width > 0
    /\ SingleSpaced(ShownText(layout.layer))
    /\ Len(layout.lines) > Len(SplitChunks(ShownText(layout.layer)))
    /\ \E i \in 1 .. Len(layout.lines) : Len(layout.lines[i]) >= 2
    /\ Len(layout.drawn_at) = Len(layout.lines)

\* ------------------------------------------------------------------------
\* QR codes: one QR code layer painted on a card that is already painted
\* ------------------------------------------------------------------------
\* cards as lower layers and the background may have left them
BeneathPool ==
    { FlatCanvas,
      NewImage(CanvasW, CanvasH, "grey"),
      Fill(FlatCanvas, Box(0, 0, 1, 0), "red") }

QRLayerPool ==
    {[QRCodeLayer("qr", x, y, w, h, PyInt(1), field)
         EXCEPT !.foregroundColor = fg, !.backgroundColor = bg] :
         x \in {0 - 1, 0, 1}, y \in {0, 1}, w \in 1 .. 3, h \in 1 .. 3,
         field \in {Absent, PyStr(S_id_number), PyStr(S_nickname)},
         fg \in {NoColour, "blue"},
         bg \in {NoColour, "grey", Transparent}}

QRRecord == (S_id_number :> PyInt(7)) @@ (S_full_name :> PyStr(<<"a", "l">>))

InitQR ==
    /\ NoRender
    /\ font_files = WindowsFonts
    /\ font_cache = EmptyCache
    /\ requests = <<>>
    /\ id_templates = <<>>
    /\ pair = <<>>
    /\ getters = <<>>
    /\ calls = <<>>
    /\ lookup = <<>>
    /\ layout = <<>>
    /\ \E layer \in QRLayerPool, beneath \in BeneathPool :
           paint = [layer |-> layer, source |-> beneath, pc |-> "given",
                    fitted |-> EmptyCard, card |-> EmptyCard]

\* render_qr_code_layer(card, layer, data); source is the card as it was
PaintQR ==
    /\ paint.pc = "given"
    /\ paint' = [paint EXCEPT
           !.pc = "painted",
           !.card = render_qr_code_layer(paint.source, paint.layer, QRRecord).card]
    /\ UNCHANGED <<render_vars, requests, id_templates, font_files, font_cache, getters, calls, lookup, layout, pair>>

NextQR == PaintQR

SpecQR == InitQR /\ [][NextQR]_vars

\* the content a QR code layer encodes for the record
QRContent(layer) == Str(DataGet(QRRecord, Get(layer.field, PyStr(S_id_number)), PyStr(<<>>)))

\* C27: when a QR code layer with non-empty content has been rendered, every
\* card pixel inside its box holds the symbol's foreground or background
\* colour, the same whatever the card held before, and the pixels outside
\* the box are as they were.
C27_QRPasteIsOpaque ==
    (paint.pc = "painted" /\ QRContent(paint.layer) # <<>>) =>
        \A p \in Pixels(CanvasW, CanvasH) :
            IF p \in BoxOnCard(paint.layer)
            THEN /\ paint.card.px[p] \in {ForegroundColor(paint.layer),
                                          BackgroundColor(paint.layer)}
                 /\ \A other \in BeneathPool :
                        render_qr_code_layer(other, paint.layer, QRRecord).card.px[p]
                            = paint.card.px[p]
            ELSE paint.card.px[p] = paint.source.px[p]

\* a symbol with a transparent background pasted over a painted pixel, in a
\* box that hangs over the card's edge
C27_Witness ==
    /\ paint.pc = "painted"
    /\ QRContent(paint.layer) # <<>>
    /\ BackgroundColor(paint.layer) = Transparent
    /\ paint.layer.x < 0
    /\ \E p \in BoxOnCard(paint.layer) :
           paint.source.px[p] = "red" /\ paint.card.px[p] = Transparent

\* ------------------------------------------------------------------------
\* Font resolution order
\* ------------------------------------------------------------------------
\* the files a request may be served from, in the stated order: the file of
\* the family and weight in each font directory, the family's regular file
\* in each font directory, the platform's Arial of the weight
FontCandidates(family, weight) ==
    LET family_lower == Lower(family)
        font_key == IF is_bold(weight) THEN family_lower \o S_bold_suffix ELSE family_lower
        InDirectories(name) == [i \in 1 .. Len(FONT_PATHS) |-> <<FONT_PATHS[i], name>>]
        exact == IF font_key \in DOMAIN FONT_MAP
                 THEN InDirectories(FONT_MAP[font_key]) ELSE <<>>
        regular == IF family_lower \in DOMAIN FONT_MAP
                   THEN InDirectories(FONT_MAP[family_lower]) ELSE <<>>
    IN  exact \o regular
            \o <<<<PlatformFonts, IF is_bold(weight) THEN "arialbd.ttf" ELSE "arial.ttf">>>>

\* the first candidate that loads, the built-in font when none does
FirstThatLoads(candidates, size) ==
    LET Loads(path) == TruetypeLoads(font_files, path, size)
        loadable == SelectSeq(candidates, Loads)
    IN  IF loadable = <<>> THEN DefaultFont ELSE [face |-> loadable[1], size |-> size]

\* C28: a get_font call returns the first font that loads among the file of
\* the family and weight, the family's regular file, the platform fallback
\* and the built-in font, in that order.
C28_ResolutionOrder ==
    \A t \in Threads :
        getters[t].pc = "done" =>
            getters[t].font = FirstThatLoads(FontCandidates(getters[t].family,
                                                            getters[t].weight),
                                             getters[t].size)

\* ------------------------------------------------------------------------
\* The id_templates table and the requests that write is_active.  Every
\* execute_query runs on a connection of its own and commits, so each SQL
\* statement of a request is a step that other requests interleave with.
\* ------------------------------------------------------------------------
MaxRows == 2

RequestIds == {"r1", "r2"}
TemplateTypes == {"student", "teacher"}
SchoolLevels == {"all"}

\* a row of id_templates, as far as activation goes
Row(type, level, active) == [template_type |-> type, school_level |-> level,
                             is_active |-> active]

Idle == [op |-> "none", pc |-> "idle", id |-> 0, template_type |-> "student",
         school_level |-> "all", is_active |-> FALSE]

InitActive ==
    /\ NoRender
    /\ font_files = WindowsFonts
    /\ font_cache = EmptyCache
    /\ pair = <<>>
    /\ paint = <<>>
    /\ getters = <<>>
    /\ calls = <<>>
    /\ lookup = <<>>
    /\ layout = <<>>
    /\ id_templates = <<>>
    /\ requests = [r \in RequestIds |-> Idle]

active_elsewhere == <<render_vars, font_files, font_cache, pair, paint, getters, calls,
                      lookup, layout>>

\* UPDATE id_templates SET is_active = FALSE WHERE template_type = %s AND
\* school_level = %s [AND id != %s]
DeactivateLike(rows, type, level, except) ==
    [i \in DOMAIN rows |->
        IF rows[i].template_type = type /\ rows[i].school_level = level /\ i # except
        THEN [rows[i] EXCEPT !.is_active = FALSE] ELSE rows[i]]

\* POST /templates: create_template is entered with its body
CreateBegin(r) ==
    /\ requests[r].pc = "idle"
    /\ Len(id_templates) < MaxRows
    /\ \E type \in TemplateTypes, level \in SchoolLevels, active \in BOOLEAN :
           requests' = [requests EXCEPT ![r] =
               [op |-> "create", pc |-> IF active THEN "deactivate" ELSE "insert", id |-> 0,
                template_type |-> type, school_level |-> level, is_active |-> active]]
    /\ UNCHANGED <<active_elsewhere, id_templates>>

\* if template.isActive: deactivate the templates of the same type and level
CreateDeactivate(r) ==
    /\ requests[r].op = "create" /\ requests[r].pc = "deactivate"
    /\ id_templates' = DeactivateLike(id_templates, requests[r].template_type,
                                      requests[r].school_level, 0)
    /\ requests' = [requests EXCEPT ![r].pc = "insert"]
    /\ UNCHANGED active_elsewhere

\* INSERT INTO id_templates (...)
CreateInsert(r) ==
    /\ requests[r].op \in {"create", "duplicate"} /\ requests[r].pc = "insert"
    /\ IF Len(id_templates) < MaxRows
       THEN id_templates' = Append(id_templates,
                Row(requests[r].template_type, requests[r].school_level,
                    requests[r].is_active))
       ELSE id_templates' = id_templates
    /\ requests' = [requests EXCEPT ![r] = Idle]
    /\ UNCHANGED active_elsewhere

\* PUT /templates/{id}: existing = get_template(template_id); the body sets
\* isActive, and templateType (left out of the body, it is the existing one)
UpdateBegin(r) ==
    /\ requests[r].pc = "idle"
    /\ \E id \in DOMAIN id_templates, active \in BOOLEAN, type \in TemplateTypes :
           requests' = [requests EXCEPT ![r] =
               [op |-> "update", pc |-> IF active THEN "deactivate" ELSE "write", id |-> id,
                template_type |-> type, school_level |-> id_templates[id].school_level,
                is_active |-> active]]
    /\ UNCHANGED <<active_elsewhere, id_templates>>

\* if update_dict['isActive']: deactivate the others of the type and level
UpdateDeactivate(r) ==
    /\ requests[r].op = "update" /\ requests[r].pc = "deactivate"
    /\ id_templates' = DeactivateLike(id_templates, requests[r].template_type,
                                      requests[r].school_level, requests[r].id)
    /\ requests' = [requests EXCEPT ![r].pc = "write"]
    /\ UNCHANGED active_elsewhere

\* UPDATE id_templates SET template_type = %s, is_active = %s WHERE id = %s
UpdateWrite(r) ==
    /\ requests[r].op = "update" /\ requests[r].pc = "write"
    /\ id_templates' = [id_templates EXCEPT
           ![requests[r].id].template_type = requests[r].template_type,
           ![requests[r].id].is_active = requests[r].is_active]
    /\ requests' = [requests EXCEPT ![r] = Idle]
    /\ UNCHANGED active_elsewhere

\* POST /templates/{id}/duplicate: original = get_template(template_id);
\* create_template is called with isActive=False
DuplicateBegin(r) ==
    /\ requests[r].pc = "idle"
    /\ Len(id_templates) < MaxRows
    /\ \E id \in DOMAIN id_templates :
           requests' = [requests EXCEPT ![r] =
               [op |-> "duplicate", pc |-> "insert", id |-> id,
                template_type |-> id_templates[id].template_type,
                school_level |-> id_templates[id].school_level, is_active |-> FALSE]]
    /\ UNCHANGED <<active_elsewhere, id_templates>>

\* POST /templates/{id}/activate: template = get_template(template_id)
ActivateBegin(r) ==
    /\ requests[r].pc = "idle"
    /\ \E id \in DOMAIN id_templates :
           requests' = [requests EXCEPT ![r] =
               [op |-> "activate", pc |-> "reset", id |-> id,
                template_type |-> id_templates[id].template_type,
                school_level |-> id_templates[id].school_level, is_active |-> TRUE]]
    /\ UNCHANGED <<active_elsewhere, id_templates>>

\* UPDATE id_templates SET is_active = FALSE
ActivateReset(r) ==
    /\ requests[r].op = "activate" /\ requests[r].pc = "reset"
    /\ id_templates' = [i \in DOMAIN id_templates |->
                            [id_templates[i] EXCEPT !.is_active = FALSE]]
    /\ requests' = [requests EXCEPT ![r].pc = "set"]
    /\ UNCHANGED active_elsewhere

\* UPDATE id_templates SET is_active = TRUE WHERE id = %s
ActivateSet(r) ==
    /\ requests[r].op = "activate" /\ requests[r].pc = "set"
    /\ id_templates' = [id_templates EXCEPT ![requests[r].id].is_active = TRUE]
    /\ requests' = [requests EXCEPT ![r] = Idle]
    /\ UNCHANGED active_elsewhere

NextActive ==
    \E r \in RequestIds :
        \/ ActivateBegin(r)
        \/ ActivateReset(r)
        \/ ActivateSet(r)
        \/ CreateBegin(r)
        \/ CreateDeactivate(r)
        \/ CreateInsert(r)
        \/ DuplicateBegin(r)
        \/ UpdateBegin(r)
        \/ UpdateDeactivate(r)
        \/ UpdateWrite(r)

SpecActive == InitActive /\ [][NextActive]_vars

\* the rows load_active_template's WHERE is_active = 1 selects from
ActiveRows == {i \in DOMAIN id_templates : id_templates[i].is_active}

\* C29: whatever create, update, duplicate and activate requests have run,
\* and however their statements interleaved, at most one row of id_templates
\* has is_active = TRUE.
C29_AtMostOneActive == Cardinality(ActiveRows) <= 1

====
